---- MODULE Spec2Model ----
(***************************************************************************)
(* A model of the real-time messaging core of PetStore-TypeScript-MCP-WS:  *)
(*   - CircuitBreaker      (src/unnamed/part_018)                          *)
(*   - WebSocketManager    (src/unnamed/part_016), with its RateLimiter    *)
(*                         (src/unnamed/part_015)                          *)
(*   - MessageQueue        (src/unnamed/part_017)                          *)
(* Every component runs on one JavaScript event loop: the code between two *)
(* awaits is one atomic step, and a model action is one such step.         *)
(***************************************************************************)
EXTENDS Integers, Sequences, FiniteSets, Bags, TLC

VARIABLES
    \* ---- CircuitBreaker (part_018:31-36)
    state,            \* this.state
    failures,         \* this.failures
    halfOpenCalls,    \* this.halfOpenCalls
    resetTimer,       \* TRUE while the callback of this.resetTimer is pending
    running,          \* operations awaited at part_018:100, by the state they were admitted in
    \* ---- CircuitBreaker, history (not program state)
    consecutive,      \* failed execute calls since the last successful one
    cancelled,        \* stop() cleared the timer armed by the latest scheduleReset
    lastCall,         \* what the latest step of the breaker was
    \* ---- WebSocketManager (part_016:42-49) and its RateLimiter (part_015:12)
    clients,          \* keys of this.clients
    rateLimiter,      \* RateLimiter.clients: per key [present, requests, elapsed]
    pendingRequests,  \* keys of this.pendingRequests
    timeouts,         \* correlationIds whose PendingRequest.timeout is armed
    nextCorrelation,  \* the next value randomUUID() returns (fresh each time)
    decoding,         \* inbound frames awaiting decompress at part_016:229
    \* ---- WebSocketManager, history (not program state)
    settled,          \* per correlationId, how often each callback of its PendingRequest ran
    \* ---- MessageQueue (part_017:31-36) and the store behind this.publisher
    queue,            \* the store's lists queue:high, queue:medium, queue:low (head is rpop'd next)
    pipeline,         \* commands sent on this.publisher whose reply has not been handled, in order
    isProcessing,     \* this.isProcessing
    backpressureActive, \* this.backpressureActive
    listening,        \* bag of the message objects whose listener is awaited (line 206):
                      \* [msg, timed], timed while this.processing holds the message's timer
    delays,           \* bag of the message objects of handleMessageError calls awaiting
                      \* retryDelay (line 246)
    sleepers,         \* consumer loops awaiting the poll delay (lines 174, 180)
    \* ---- MessageQueue, history (not program state)
    bpStarts,         \* backpressure_start events since the latest backpressure_end (up to 2)
    firstStart,       \* "pending" from the first start of the consumer loop with a high
                      \* message queued until a listener is first invoked; "done" after
    failedEmitted,    \* the latest step emitted the failed event
    \* ---- WebSocketManager, inbound request frames (part_016:194-340)
    requests,         \* per request frame, in arrival order: its connection, content, the
                      \* await its handling stands at, and the response it leads to
    nextRequest,      \* the number of the next request frame to arrive
    outbox,           \* per socket, the response envelopes passed to socket.send, in order
    \* ---- WebSocketManager, broadcast (part_016:165-192)
    closed,           \* the sockets whose readyState is not OPEN
    broadcasts,       \* per broadcast call: its arguments and the await it stands at
    nextBroadcast,    \* the number of the next broadcast call
    notified,         \* per socket, the notification texts passed to socket.send, in order
    \* ---- RateLimiter called directly, history (not program state)
    lastResult,       \* per key, what the latest direct call of isRateLimited returned
    windowCalls,      \* per key, the direct calls of isRateLimited since its window started
    \* ---- HeartbeatMonitor (part_021:10-12)
    heartbeat,        \* per socket: entry, the timer held by pongTimeouts ("none", "armed",
                      \* or "fired": the callback has run, the entry is still there);
                      \* stray / strayAnswered, the armed timers that pongTimeouts no longer
                      \* holds, by whether a pong has come since their ping; missed, the value
                      \* in missedHeartbeats (0: no entry); onPong, a once('pong') handler waits
    ticking,          \* this.pingInterval is set
    \* ---- HeartbeatMonitor, history (not program state)
    reported,         \* per socket, onTimeout has been called for it
    unansweredFired,  \* per socket, a pong timeout fired with no pong since its ping
    \* ---- MessageQueue, the listeners of one processing attempt (part_017:192-229)
    registered,       \* the number of listeners registered for 'message', in order 1..n
    attempts,         \* per processMessage call: listeners, the length of the copy taken at
                      \* line 202; awaited, the listener awaited at line 206 (0: none);
                      \* invoked, the listeners called so far; timer, the processing timer
                      \* ("armed", "fired", "cleared"); outcome ("idle", "running",
                      \* "processed", "error")
    \* ---- CircuitBreaker.execute, call by call (part_018:82-116)
    calls,            \* per execute call: fallback, a fallback was passed; stage ("idle",
                      \* "operation": awaiting operation(), "done"); admitted, the state
                      \* it was admitted in; cause, why the try block was left; outcome,
                      \* what the call gives its caller; error, the error it rejects with;
                      \* fallbackCalls, how often the fallback was called
    \* ---- ClusterManager (part_019:23-30), one instance per node, and the bus
    crashed,          \* the nodes that stopped publishing without node_leave
    inflight,         \* <<sender, receiver>>: a heartbeat published by sender that
                      \* receiver's subscriber has not handled yet
    peers,            \* per node, this.nodes: per peer "absent", "fresh", or "stale"
                      \* (more than nodeTimeout has passed since lastHeartbeat)
    \* ---- ClusterManager, history (not program state)
    nodeTimeouts,     \* per node, the peers it emitted node_timeout for
    \* ---- LoadBalancer (LoadBalancer.ts:10-31), one node of this.nodes
    nodeActive,       \* node.active
    failureCount,     \* node.failureCount
    checks,           \* bag of the checkNodeHealth calls awaited for the node: kind
                      \* ("health": line 166, "recovery": line 194) and wasActive, the
                      \* value read at line 165
    \* ---- LoadBalancer, history (not program state)
    lbEmitted,        \* the events emitted by the latest step
    \* ---- SecurityManager (SecurityManager.ts:25-27) and the clock behind Date.now()
    tokens,           \* this.tokens: per token its TokenInfo [userId, expiresAt]
    userTokens,       \* this.userTokens: per userId its set of tokens
    now,              \* what Date.now() returns
    \* ---- SecurityManager, history (not program state)
    lastOp,           \* the latest call: its name, the tokens it took out of this.tokens,
                      \* and whether it threw
    \* ---- WebSocketManager with its ConnectionMetrics and HeartbeatMonitor
    activeConnections, \* ConnectionMetrics.activeConnections
    \* ---- WebSocketManager, history (not program state)
    issued,           \* the clientIds randomUUID has returned to addClient
    absentRemovals,   \* removeClient calls made for an id that was not in this.clients
    \* ---- SecurityManager.validateConnection (SecurityManager.ts:26, 63-103)
    ipConnections,    \* this.ipConnections: per ip [count, cooled]; cooled: a minute or
                      \* more has passed since lastConnection
    \* ---- connections admitted by validateConnection, history (not program state)
    openConnections,  \* per ip, the connections validateConnection accepted that are open
    lastVerdict,      \* the error of the latest validateConnection call, "" when valid
    \* ---- WebSocketManager, response frames by connection (part_016:129-163, 194-291)
    arrived,          \* response frames awaiting decompress at part_016:229, with the
                      \* connection whose message listener received them
    \* ---- WebSocketManager, history (not program state)
    sentTo,           \* per correlationId, the clientId sendRequest was called with
    settledBy,        \* per correlationId, the connection of the response frame that
                      \* resolved or rejected its PendingRequest
    \* ---- MessageQueue, the lists of the store with the messages told apart
    \* ---- (part_017:121-190, 237-252)
    store,            \* the lists queue:high, queue:medium, queue:low; index 1 is the left end
    wire,             \* commands sent on this.publisher whose caller has not been resumed
    handling,         \* the messages whose listener is awaited (line 206)
    waiting,          \* the messages of handleMessageError calls awaiting retryDelay
    loop,             \* where the consumer loop stands: "asleep" (lines 174, 180) or
                      \* "dequeue" (line 178)
    nextData,         \* the number of the next payload a producer enqueues
    \* ---- MessageQueue, history (not program state)
    order,            \* per priority, the enqueue calls in call order, without those
                      \* that threw 'Queue is full'
    taken,            \* per priority, the messages dequeue has returned, in order
    \* ---- CircuitBreaker as an EventEmitter (part_018:140-145), history
    emitted,          \* the state events emitted by the latest step, in order
    \* ---- RateLimiter with the clock behind Date.now() (part_015:12, 23-46)
    clock,            \* what Date.now() returns
    limiter,          \* RateLimiter.clients: per key [present, requests, windowStart]
    \* ---- RateLimiter, history (not program state)
    passed,           \* per key and instant, the isRateLimited calls that returned false
    verdicts,         \* per key, what the latest isRateLimited call returned
    \* ---- ReconnectingWebSocket (ReconnectingWebSocket.ts:18-23)
    wsState,          \* this.ws: "connecting", "open", "errored" (its error event was
                      \* handled, its close event is to come), "closing" (close() was
                      \* called on it), "closed"
    isConnecting,     \* this.isConnecting
    retries,          \* this.retries
    reconnectTimeout, \* the timer this.reconnectTimeout refers to: "none", "armed", "fired"
    strayTimers,      \* armed reconnect timers this.reconnectTimeout no longer refers to
    \* ---- ReconnectingWebSocket, history (not program state)
    closeCalled,      \* close() has been called
    connectsAfterClose \* connections started (line 39) after close() was called

cbvars == <<state, failures, halfOpenCalls, resetTimer, running, consecutive, cancelled, lastCall>>

wsvars == <<clients, rateLimiter, pendingRequests, timeouts, nextCorrelation, decoding,
            settled>>

mqvars == <<queue, pipeline, isProcessing, backpressureActive, listening, delays,
            sleepers, bpStarts, firstStart, failedEmitted>>

rqvars == <<requests, nextRequest, outbox>>

bcvars == <<closed, broadcasts, nextBroadcast, notified>>

rlvars == <<lastResult, windowCalls>>

hbvars == <<heartbeat, ticking, reported, unansweredFired>>

mlvars == <<registered, attempts>>

fbvars == <<calls>>

clvars == <<crashed, inflight, peers, nodeTimeouts>>

lbvars == <<nodeActive, failureCount, checks, lbEmitted>>

smvars == <<tokens, userTokens, now, lastOp>>

cmvars == <<activeConnections, issued, absentRemovals>>

ipvars == <<ipConnections, openConnections, lastVerdict>>

xcvars == <<arrived, sentTo, settledBy>>

ffvars == <<store, wire, handling, waiting, loop, nextData, order, taken>>

evvars == <<emitted>>

swvars == <<clock, limiter, passed, verdicts>>

rwvars == <<wsState, isConnecting, retries, reconnectTimeout, strayTimers, closeCalled, connectsAfterClose>>

vars ==
    <<cbvars, wsvars, mqvars, rqvars, bcvars, rlvars, hbvars, mlvars, fbvars, clvars, lbvars, smvars,
     cmvars,
     ipvars,
     xcvars,
     ffvars,
     evvars,
     swvars,
     rwvars>>

\* what the steps of one component leave alone
outsideCB == <<wsvars, mqvars, rqvars, bcvars, rlvars, hbvars, mlvars, fbvars, clvars, lbvars, smvars,
     cmvars,
     ipvars,
     xcvars,
     ffvars,
     evvars,
     swvars,
     rwvars>>

outsideWS == <<cbvars, mqvars, rqvars, bcvars, rlvars, hbvars, mlvars, fbvars, clvars, lbvars, smvars,
     cmvars,
     ipvars,
     xcvars,
     ffvars,
     evvars,
     swvars,
     rwvars>>

outsideMQ == <<cbvars, wsvars, rqvars, bcvars, rlvars, hbvars, mlvars, fbvars, clvars, lbvars, smvars,
     cmvars,
     ipvars,
     xcvars,
     ffvars,
     evvars,
     swvars,
     rwvars>>

outsideRQ == <<cbvars, mqvars, bcvars, rlvars, hbvars, mlvars, fbvars, clvars, lbvars, smvars,
     cmvars,
     ipvars,
     xcvars,
     ffvars,
     evvars,
     swvars,
     rwvars>>

outsideRL == <<cbvars, mqvars, rqvars, bcvars, hbvars, mlvars, fbvars, clvars, lbvars, smvars,
     cmvars,
     ipvars,
     xcvars,
     ffvars,
     evvars,
     swvars,
     rwvars>>

outsideLB ==
    <<cbvars, wsvars, mqvars, rqvars, bcvars, rlvars, hbvars, mlvars, fbvars, clvars, smvars,
     cmvars,
     ipvars,
     xcvars,
     ffvars,
     evvars,
     swvars,
     rwvars>>

outsideSM ==
    <<cbvars, wsvars, mqvars, rqvars, bcvars, rlvars, hbvars, mlvars, fbvars, clvars, lbvars,
     cmvars,
     ipvars,
     xcvars,
     ffvars,
     evvars,
     swvars,
     rwvars>>

outsideCL ==
    <<cbvars, wsvars, mqvars, rqvars, bcvars, rlvars, hbvars, mlvars, fbvars, lbvars, smvars,
     cmvars,
     ipvars,
     xcvars,
     ffvars,
     evvars,
     swvars,
     rwvars>>

outsideFB == <<wsvars, mqvars, rqvars, bcvars, rlvars, hbvars, mlvars, clvars, lbvars, smvars,
     cmvars,
     ipvars,
     xcvars,
     ffvars,
     evvars,
     swvars,
     rwvars>>

outsideML == <<cbvars, wsvars, mqvars, rqvars, bcvars, rlvars, hbvars, fbvars, clvars, lbvars, smvars,
     cmvars,
     ipvars,
     xcvars,
     ffvars,
     evvars,
     swvars,
     rwvars>>

outsideHB == <<cbvars, wsvars, mqvars, rqvars, bcvars, rlvars, mlvars, fbvars, clvars, lbvars, smvars,
     cmvars,
     ipvars,
     xcvars,
     ffvars,
     evvars,
     swvars,
     rwvars>>

outsideBC == <<cbvars, wsvars, mqvars, rqvars, rlvars, hbvars, mlvars, fbvars, clvars, lbvars, smvars,
     cmvars,
     ipvars,
     xcvars,
     ffvars,
     evvars,
     swvars,
     rwvars>>

outsideCM ==
    <<cbvars, mqvars, rqvars, bcvars, rlvars, mlvars,
      fbvars, clvars, lbvars, smvars,
     ipvars,
     xcvars,
     ffvars,
     evvars,
     swvars,
     rwvars>>

outsideIP ==
    <<cbvars, wsvars, mqvars, rqvars, bcvars, rlvars,
      hbvars, mlvars, fbvars, clvars, lbvars, smvars,
      cmvars,
     xcvars,
     ffvars,
     evvars,
     swvars,
     rwvars>>

outsideXC ==
    <<cbvars, mqvars, rqvars, bcvars, rlvars, hbvars,
      mlvars, fbvars, clvars, lbvars, smvars, cmvars,
      ipvars,
     ffvars,
     evvars,
     swvars,
     rwvars>>

outsideFF ==
    <<cbvars, wsvars, mqvars, rqvars, bcvars, rlvars,
      hbvars, mlvars, fbvars, clvars, lbvars, smvars,
      cmvars, ipvars, xcvars,
     evvars,
     swvars,
     rwvars>>

outsideEV ==
    <<wsvars, mqvars, rqvars, bcvars, rlvars, hbvars,
      mlvars, fbvars, clvars, lbvars, smvars, cmvars,
      ipvars, xcvars, ffvars,
     swvars,
     rwvars>>

outsideSW ==
    <<cbvars, wsvars, mqvars, rqvars, bcvars, rlvars,
      hbvars, mlvars, fbvars, clvars, lbvars, smvars,
      cmvars, ipvars, xcvars, ffvars, evvars,
     rwvars>>

outsideRW ==
    <<cbvars, wsvars, mqvars, rqvars, bcvars, rlvars,
      hbvars, mlvars, fbvars, clvars, lbvars, smvars,
      cmvars, ipvars, xcvars, ffvars, evvars, swvars>>

(***************************************************************************)
(* Bounds of the model.                                                    *)
(***************************************************************************)
\* config.failureThreshold of the breaker under test
FailureThreshold == 2
\* config.halfOpenMaxCalls of the breaker under test
HalfOpenMaxCalls == 1
\* operations that may be awaited at the same time
MaxRunning == 2
\* the failure counter is followed up to this value
MaxFailures == 4
\* config.rateLimitMaxRequests of the manager under test
RateLimitMaxRequests == 1
\* sendRequest calls followed (each draws a fresh correlationId)
MaxCorrelation == 2
\* inbound frames that may be between arrival and dispatch at the same time
MaxDecoding == 2
\* inbound request frames followed
MaxRequests == 2
\* broadcast calls followed
MaxBroadcasts == 2
\* config.maxFailures of the load balancer
LBMaxFailures == 2
\* node.failureCount is followed up to this value
MaxFailureCount == 3
\* checkNodeHealth calls awaited at the same time
MaxChecks == 3
\* config.maxTokensPerUser of the security manager
MaxTokensPerUser == 2
\* config.tokenExpirationSeconds, in ticks of the clock
TokenExpiration == 1
\* distinct values randomBytes may return
MaxTokens == 3
\* the clock is followed up to this value
MaxNow == 3
\* removeClient calls for unknown ids that are followed
MaxAbsentRemovals == 2
\* config.maxConnectionsPerIp of the security manager
MaxConnectionsPerIp == 2
\* open connections of one ip that are followed
MaxOpenConnections == 4
\* payloads the producers enqueue
MaxFifoData == 2
\* retries of one payload that are followed
MaxFifoAttempts == 1
\* config.windowMs of the rate limiter, in ticks of the clock
WindowMs == 2
\* the clock is followed up to this instant
MaxClock == 4
\* config.maxRetries of the reconnecting socket
ReconnectMaxRetries == 2
\* reconnect timers followed besides the one this.reconnectTimeout holds
MaxStrayTimers == 2
\* connections started after close() that are counted
MaxConnectsAfterClose == 1
\* execute calls followed one by one
MaxCalls == 2
\* listeners registered for 'message' at most
MaxListeners == 2
\* processMessage calls followed
MaxAttempts == 2
\* config.maxMissedHeartbeats of the monitor under test
MaxMissedHeartbeats == 2
\* pong timers of one socket that may be armed at the same time
MaxTimers == 3
\* direct calls of isRateLimited followed per key and window
MaxWindowCalls == 5
\* config.maxQueueSize of the queue under test
MaxQueueSize == 2
\* config.backpressureThreshold of the queue under test
BackpressureThreshold == 1
\* config.maxRetries of the queue under test (the default of enqueue's maxRetries)
MaxRetries == 1
\* config.concurrency of the queue under test
Concurrency == 1
\* messages that may be in the queue's hands (called in, queued, listened to,
\* awaiting a retry) at the same time
MaxMessages == 3
\* commands on this.publisher that may await their reply at the same time
MaxInFlight == 2
\* consumer loops (startProcessing calls that have not returned) at the same time
MaxLoops == 2

(***************************************************************************)
(* CircuitBreaker                                                          *)
(***************************************************************************)
CircuitState == {"CLOSED", "OPEN", "HALF_OPEN"}

Running == running["CLOSED"] + running["HALF_OPEN"]

\* scheduleReset: clear the pending timer, arm a new one
scheduleReset == resetTimer' = TRUE /\ cancelled' = FALSE

\* the catch block's release of a trial slot (part_018:105-107)
releaseSlot ==
    halfOpenCalls' = IF state = "HALF_OPEN" /\ halfOpenCalls > 0
                     THEN halfOpenCalls - 1 ELSE halfOpenCalls

onFailure_off_by_one ==
    /\ failures' = failures + 1
    /\ IF (state = "CLOSED" /\ failures + 1 > FailureThreshold) \/ state = "HALF_OPEN"
       THEN state' = "OPEN" /\ scheduleReset
       ELSE UNCHANGED <<state, resetTimer, cancelled>>

onFailure_no_timer ==
    /\ failures' = failures + 1
    /\ IF (state = "CLOSED" /\ failures + 1 >= FailureThreshold) \/ state = "HALF_OPEN"
       THEN state' = "OPEN" /\ UNCHANGED <<resetTimer, cancelled>>
       ELSE UNCHANGED <<state, resetTimer, cancelled>>

\* onFailure: count the failure; open from CLOSED at the threshold, and from HALF_OPEN always
onFailure ==
    /\ failures' = failures + 1
    /\ IF (state = "CLOSED" /\ failures + 1 >= FailureThreshold) \/ state = "HALF_OPEN"
       THEN state' = "OPEN" /\ scheduleReset
       ELSE UNCHANGED <<state, resetTimer, cancelled>>

onSuccess_keeps_count ==
    IF state = "HALF_OPEN"
    THEN state' = "CLOSED" /\ failures' = failures /\ halfOpenCalls' = 0
    ELSE UNCHANGED <<state, failures, halfOpenCalls>>

\* onSuccess: a success closes a HALF_OPEN breaker and resets its counters;
\* in any other state it changes nothing but the metrics
onSuccess ==
    IF state = "HALF_OPEN"
    THEN state' = "CLOSED" /\ failures' = 0 /\ halfOpenCalls' = 0
    ELSE UNCHANGED <<state, failures, halfOpenCalls>>

\* execute, called while OPEN: throws at line 90, the catch block counts a failure
ExecuteOpen ==
    /\ UNCHANGED outsideCB
    /\ state = "OPEN"
    /\ failures < MaxFailures
    /\ releaseSlot
    /\ onFailure
    /\ consecutive' = IF consecutive < MaxFailures THEN consecutive + 1 ELSE consecutive
    /\ lastCall' = "rejected_open"
    /\ UNCHANGED running

\* execute, called while HALF_OPEN with every trial slot taken: throws at line 95,
\* and the same catch block runs
ExecuteAtCapacity ==
    /\ UNCHANGED outsideCB
    /\ state = "HALF_OPEN"
    /\ halfOpenCalls >= HalfOpenMaxCalls
    /\ failures < MaxFailures
    /\ releaseSlot
    /\ onFailure
    /\ consecutive' = IF consecutive < MaxFailures THEN consecutive + 1 ELSE consecutive
    /\ lastCall' = "rejected_capacity"
    /\ UNCHANGED running

\* execute up to the await of operation() at line 100: admitted in CLOSED, or in
\* HALF_OPEN with a free trial slot, which it takes
ExecuteAdmit ==
    /\ UNCHANGED outsideCB
    /\ Running < MaxRunning
    /\ \/ state = "CLOSED" /\ UNCHANGED halfOpenCalls
       \/ /\ state = "HALF_OPEN"
          /\ halfOpenCalls < HalfOpenMaxCalls
          /\ halfOpenCalls' = halfOpenCalls + 1
    /\ running' = [running EXCEPT ![state] = @ + 1]
    /\ lastCall' = "admitted"
    /\ UNCHANGED <<state, failures, resetTimer, consecutive, cancelled>>

\* the awaited operation resolves: lines 101-103
OperationSucceeds(admitted) ==
    /\ UNCHANGED outsideCB
    /\ running[admitted] > 0
    /\ running' = [running EXCEPT ![admitted] = @ - 1]
    /\ onSuccess
    /\ consecutive' = 0
    /\ lastCall' = IF admitted = "HALF_OPEN" THEN "trial_succeeded" ELSE "succeeded"
    /\ UNCHANGED <<resetTimer, cancelled>>

\* the awaited operation rejects: lines 104-109
OperationFails(admitted) ==
    /\ UNCHANGED outsideCB
    /\ running[admitted] > 0
    /\ failures < MaxFailures
    /\ running' = [running EXCEPT ![admitted] = @ - 1]
    /\ releaseSlot
    /\ onFailure
    /\ consecutive' = IF consecutive < MaxFailures THEN consecutive + 1 ELSE consecutive
    /\ lastCall' = IF admitted = "HALF_OPEN" THEN "trial_failed" ELSE "failed"

\* the callback armed by scheduleReset (lines 152-157)
ResetTimerFires ==
    /\ UNCHANGED outsideCB
    /\ resetTimer
    /\ resetTimer' = FALSE
    /\ IF state = "OPEN"
       THEN state' = "HALF_OPEN" /\ halfOpenCalls' = 0
       ELSE UNCHANGED <<state, halfOpenCalls>>
    /\ lastCall' = "timer"
    /\ UNCHANGED <<failures, running, consecutive, cancelled>>

\* stop(): clears the reset timer (and the monitor timer, which has no state here)
BreakerStop ==
    /\ UNCHANGED outsideCB
    /\ resetTimer' = FALSE
    /\ cancelled' = (cancelled \/ resetTimer)
    /\ lastCall' = "stop"
    /\ UNCHANGED <<state, failures, halfOpenCalls, running, consecutive>>

InitCB ==
    /\ state = "CLOSED"
    /\ failures = 0
    /\ halfOpenCalls = 0
    /\ resetTimer = FALSE
    /\ running = [s \in {"CLOSED", "HALF_OPEN"} |-> 0]
    /\ consecutive = 0
    /\ cancelled = FALSE
    /\ lastCall = "none"

NextCB ==
    \/ ExecuteOpen
    \/ ExecuteAtCapacity
    \/ ExecuteAdmit
    \/ \E a \in {"CLOSED", "HALF_OPEN"} : OperationSucceeds(a)
    \/ \E a \in {"CLOSED", "HALF_OPEN"} : OperationFails(a)
    \/ ResetTimerFires
    \/ BreakerStop

(***************************************************************************)
(* CircuitBreaker.execute (part_018:82-116), call by call, with and        *)
(* without a fallback                                                      *)
(***************************************************************************)
CallIds == 1..MaxCalls

NoCall ==
    [fallback |-> FALSE, stage |-> "idle", admitted |-> "none", cause |-> "none",
     outcome |-> "none", error |-> "none", fallbackCalls |-> 0]

afterCatch_throws_when_rejected(call, cause, error) ==
    IF call.fallback /\ cause = "threw"
    THEN [call EXCEPT !.stage = "done", !.cause = cause, !.outcome = "fallback",
                      !.fallbackCalls = @ + 1]
    ELSE [call EXCEPT !.stage = "done", !.cause = cause, !.outcome = "rejected",
                      !.error = error]

\* the end of the catch block (lines 111-114): the fallback's result if there is
\* a fallback, else the error that was caught
afterCatch(call, cause, error) ==
    IF call.fallback
    THEN [call EXCEPT !.stage = "done", !.cause = cause, !.outcome = "fallback",
                      !.fallbackCalls = @ + 1]
    ELSE [call EXCEPT !.stage = "done", !.cause = cause, !.outcome = "rejected",
                      !.error = error]

\* execute(operation, fallback?) up to its first await or to its return
\* (lines 86-100, 104-115)
Execute(i, fallback) ==
    /\ calls[i].stage = "idle"
    /\ (state = "OPEN" \/ (state = "HALF_OPEN" /\ halfOpenCalls >= HalfOpenMaxCalls))
           => failures < MaxFailures
    /\ LET call == [NoCall EXCEPT !.fallback = fallback] IN
       \/ /\ state = "OPEN"
          /\ releaseSlot
          /\ onFailure
          /\ calls' = [calls EXCEPT ![i] =
                 afterCatch(call, "open", "Circuit breaker is OPEN")]
       \/ /\ state = "HALF_OPEN"
          /\ halfOpenCalls >= HalfOpenMaxCalls
          /\ releaseSlot
          /\ onFailure
          /\ calls' = [calls EXCEPT ![i] =
                 afterCatch(call, "capacity", "Circuit breaker is HALF_OPEN and at capacity")]
       \/ /\ state = "CLOSED"
          /\ calls' = [calls EXCEPT ![i] =
                 [call EXCEPT !.stage = "operation", !.admitted = state]]
          /\ UNCHANGED <<state, failures, halfOpenCalls, resetTimer, cancelled>>
       \/ /\ state = "HALF_OPEN"
          /\ halfOpenCalls < HalfOpenMaxCalls
          /\ halfOpenCalls' = halfOpenCalls + 1
          /\ calls' = [calls EXCEPT ![i] =
                 [call EXCEPT !.stage = "operation", !.admitted = state]]
          /\ UNCHANGED <<state, failures, resetTimer, cancelled>>
    /\ UNCHANGED <<running, consecutive, lastCall>>
    /\ UNCHANGED outsideFB

\* the awaited operation resolves (lines 100-103)
CallSucceeds(i) ==
    /\ calls[i].stage = "operation"
    /\ onSuccess
    /\ calls' = [calls EXCEPT ![i] =
           [@ EXCEPT !.stage = "done", !.cause = "succeeded", !.outcome = "result"]]
    /\ UNCHANGED <<resetTimer, cancelled, running, consecutive, lastCall>>
    /\ UNCHANGED outsideFB

\* the awaited operation rejects (lines 104-115)
CallThrows(i) ==
    /\ calls[i].stage = "operation"
    /\ failures < MaxFailures
    /\ releaseSlot
    /\ onFailure
    /\ calls' = [calls EXCEPT ![i] = afterCatch(@, "threw", "operation error")]
    /\ UNCHANGED <<running, consecutive, lastCall>>
    /\ UNCHANGED outsideFB

\* the caller has taken the call's result or error
CallReturns(i) ==
    /\ calls[i].stage = "done"
    /\ calls' = [calls EXCEPT ![i] = NoCall]
    /\ UNCHANGED cbvars
    /\ UNCHANGED outsideFB

\* the callback armed by scheduleReset (lines 152-157)
CallResetTimerFires ==
    /\ resetTimer
    /\ resetTimer' = FALSE
    /\ IF state = "OPEN"
       THEN state' = "HALF_OPEN" /\ halfOpenCalls' = 0
       ELSE UNCHANGED <<state, halfOpenCalls>>
    /\ UNCHANGED <<failures, running, consecutive, cancelled, lastCall, calls>>
    /\ UNCHANGED outsideFB

InitFB == calls = [i \in CallIds |-> NoCall]

NextFB ==
    \/ \E i \in CallIds, fallback \in BOOLEAN : Execute(i, fallback)
    \/ \E i \in CallIds : CallSucceeds(i)
    \/ \E i \in CallIds : CallThrows(i)
    \/ \E i \in CallIds : CallReturns(i)
    \/ CallResetTimerFires

(***************************************************************************)
(* RateLimiter (part_015)                                                  *)
(***************************************************************************)
\* the window state of a key after the lazy creation and the window reset at the
\* head of isRateLimited (lines 25-36); elapsed: now - windowStart >= windowMs
NoWindow == [present |-> FALSE, requests |-> 0, elapsed |-> FALSE]

windowState(st) ==
    IF ~st.present \/ st.elapsed
    THEN [present |-> TRUE, requests |-> 0, elapsed |-> FALSE] ELSE st

\* isRateLimited's result (line 39)
isRateLimited(st) == windowState(st).requests >= RateLimitMaxRequests

afterRateLimit_counts_refused(st) == [windowState(st) EXCEPT !.requests = @ + 1]

\* the key's state after isRateLimited (lines 39-45): counted only when admitted
afterRateLimit(st) ==
    IF isRateLimited(st) THEN windowState(st)
    ELSE [windowState(st) EXCEPT !.requests = @ + 1]

\* windowMs passes since the key's windowStart
WindowElapses(c) ==
    /\ rateLimiter[c].present
    /\ ~rateLimiter[c].elapsed
    /\ rateLimiter' = [rateLimiter EXCEPT ![c].elapsed = TRUE]
    /\ UNCHANGED <<clients, pendingRequests, timeouts, nextCorrelation, decoding, settled>>
    /\ UNCHANGED outsideWS

(***************************************************************************)
(* WebSocketManager (part_016)                                             *)
(***************************************************************************)
ClientIds == {"c1", "c2"}
CorrelationIds == 1..MaxCorrelation
Status == {"success", "error"}
NotSettled == [resolve |-> 0, reject |-> 0, timeout |-> 0]

\* addClient
AddClient(c) ==
    /\ c \notin clients
    /\ clients' = clients \cup {c}
    /\ UNCHANGED <<rateLimiter, pendingRequests, timeouts, nextCorrelation, decoding, settled>>
    /\ UNCHANGED outsideWS

RemoveClient_keeps_limiter(c) ==
    /\ c \in clients
    /\ clients' = clients \ {c}
    /\ UNCHANGED <<rateLimiter, pendingRequests, timeouts, nextCorrelation, decoding, settled>>
    /\ UNCHANGED outsideWS

\* removeClient: the table entry and the rate limiter's state go; pending
\* requests sent to the connection stay until they are answered or time out
RemoveClient(c) ==
    /\ c \in clients
    /\ clients' = clients \ {c}
    /\ rateLimiter' = [rateLimiter EXCEPT ![c] = NoWindow]
    /\ UNCHANGED <<pendingRequests, timeouts, nextCorrelation, decoding, settled>>
    /\ UNCHANGED outsideWS

\* sendRequest for a clientId that is not in the table: throws (lines 134-137)
SendRequestNoClient(c) ==
    /\ c \notin clients
    /\ UNCHANGED vars

\* a frame arrives on a socket that is not registered: handleMessage returns (line 196)
FrameDropped(c) ==
    /\ c \notin clients
    /\ UNCHANGED vars

\* sendRequest, refused by the rate limiter (line 140): nothing is registered
SendRequestLimited(c) ==
    /\ c \in clients
    /\ isRateLimited(rateLimiter[c])
    /\ rateLimiter' = [rateLimiter EXCEPT ![c] = afterRateLimit(@)]
    /\ UNCHANGED <<clients, pendingRequests, timeouts, nextCorrelation, decoding, settled>>
    /\ UNCHANGED outsideWS

\* sendRequest, lines 143-161: a fresh correlationId, its timeout armed and its
\* PendingRequest registered before the frame is sent
SendRequest(c) ==
    /\ c \in clients
    /\ ~isRateLimited(rateLimiter[c])
    /\ nextCorrelation <= MaxCorrelation
    /\ rateLimiter' = [rateLimiter EXCEPT ![c] = afterRateLimit(@)]
    /\ pendingRequests' = pendingRequests \cup {nextCorrelation}
    /\ timeouts' = timeouts \cup {nextCorrelation}
    /\ nextCorrelation' = nextCorrelation + 1
    /\ UNCHANGED <<clients, decoding, settled>>
    /\ UNCHANGED outsideWS

RequestTimeout_keeps_entry(k) ==
    /\ k \in timeouts
    /\ timeouts' = timeouts \ {k}
    /\ pendingRequests' = pendingRequests
    /\ settled' = [settled EXCEPT ![k].timeout = @ + 1]
    /\ UNCHANGED <<clients, rateLimiter, nextCorrelation, decoding>>
    /\ UNCHANGED outsideWS

\* the timeout callback of sendRequest (lines 153-156)
RequestTimeout(k) ==
    /\ k \in timeouts
    /\ timeouts' = timeouts \ {k}
    /\ pendingRequests' = pendingRequests \ {k}
    /\ settled' = [settled EXCEPT ![k].timeout = @ + 1]
    /\ UNCHANGED <<clients, rateLimiter, nextCorrelation, decoding>>
    /\ UNCHANGED outsideWS

\* handleMessage up to the await of decompress (lines 195-229), for a response
\* frame: dropped when the connection is unknown, refused when rate limited
ResponseArrives(c, k, status) ==
    /\ c \in clients
    /\ k < nextCorrelation
    /\ rateLimiter' = [rateLimiter EXCEPT ![c] = afterRateLimit(@)]
    /\ IF isRateLimited(rateLimiter[c])
       THEN UNCHANGED decoding
       ELSE /\ Cardinality(decoding) < MaxDecoding
            /\ [correlationId |-> k, status |-> status] \notin decoding
            /\ decoding' = decoding \cup {[correlationId |-> k, status |-> status]}
    /\ UNCHANGED <<clients, pendingRequests, timeouts, nextCorrelation, settled>>
    /\ UNCHANGED outsideWS

\* handleMessage after the await, dispatching a response frame to handleResponse
\* (lines 231-246, 279-291): no PendingRequest, no effect; else the timeout is
\* cleared, the entry deleted and the promise resolved or rejected by the status
handleResponse(f) ==
    /\ f \in decoding
    /\ decoding' = decoding \ {f}
    /\ IF f.correlationId \in pendingRequests
       THEN /\ timeouts' = timeouts \ {f.correlationId}
            /\ pendingRequests' = pendingRequests \ {f.correlationId}
            /\ settled' = [settled EXCEPT ![f.correlationId] =
                   IF f.status = "success" THEN [@ EXCEPT !.resolve = @ + 1]
                                           ELSE [@ EXCEPT !.reject = @ + 1]]
       ELSE UNCHANGED <<timeouts, pendingRequests, settled>>
    /\ UNCHANGED <<clients, rateLimiter, nextCorrelation>>
    /\ UNCHANGED outsideWS

InitWS ==
    /\ clients = {}
    /\ rateLimiter = [c \in ClientIds |-> NoWindow]
    /\ pendingRequests = {}
    /\ timeouts = {}
    /\ nextCorrelation = 1
    /\ decoding = {}
    /\ settled = [k \in CorrelationIds |-> NotSettled]

NextWS ==
    \/ \E c \in ClientIds : AddClient(c)
    \/ \E c \in ClientIds : RemoveClient(c)
    \/ \E c \in ClientIds : WindowElapses(c)
    \/ \E c \in ClientIds : SendRequestNoClient(c)
    \/ \E c \in ClientIds : FrameDropped(c)
    \/ \E c \in ClientIds : SendRequestLimited(c)
    \/ \E c \in ClientIds : SendRequest(c)
    \/ \E k \in CorrelationIds : RequestTimeout(k)
    \/ \E c \in ClientIds, k \in CorrelationIds, status \in Status : ResponseArrives(c, k, status)
    \/ \E f \in decoding : handleResponse(f)

(***************************************************************************)
(* RateLimiter (part_015), called directly                                 *)
(***************************************************************************)
\* isRateLimited(k) called while fewer than MaxWindowCalls calls were made in
\* the key's window
IsRateLimitedCall(k) ==
    /\ (rateLimiter[k].present /\ ~rateLimiter[k].elapsed) => windowCalls[k] < MaxWindowCalls
    /\ rateLimiter' = [rateLimiter EXCEPT ![k] = afterRateLimit(@)]
    /\ lastResult' = [lastResult EXCEPT ![k] = isRateLimited(rateLimiter[k])]
    /\ windowCalls' = [windowCalls EXCEPT ![k] =
           IF ~rateLimiter[k].present \/ rateLimiter[k].elapsed THEN 1 ELSE @ + 1]
    /\ UNCHANGED <<clients, pendingRequests, timeouts, nextCorrelation, decoding, settled>>
    /\ UNCHANGED outsideRL

\* RateLimiter.removeClient(k) (lines 73-75)
LimiterRemoveClient(k) ==
    /\ rateLimiter' = [rateLimiter EXCEPT ![k] = NoWindow]
    /\ lastResult' = lastResult
    /\ windowCalls' = [windowCalls EXCEPT ![k] = 0]
    /\ UNCHANGED <<clients, pendingRequests, timeouts, nextCorrelation, decoding, settled>>
    /\ UNCHANGED outsideRL

InitRL ==
    /\ lastResult = [k \in ClientIds |-> FALSE]
    /\ windowCalls = [k \in ClientIds |-> 0]

NextRL ==
    \/ \E k \in ClientIds : IsRateLimitedCall(k)
    \/ \E k \in ClientIds : WindowElapses(k)
    \/ \E k \in ClientIds : LimiterRemoveClient(k)

(***************************************************************************)
(* WebSocketManager (part_016): inbound request frames                     *)
(* A ClientIds value stands for a socket, registered under at most one     *)
(* clientId at a time; the listener of line 89 calls handleMessage for     *)
(* each frame, and the calls are not awaited.                              *)
(***************************************************************************)
RequestIds == 1..MaxRequests

\* this.handlers: the actions with a registered handler
Handlers == {"getPet"}

\* the frames sent by the peers: requests for a handled and for an unknown
\* action, and a frame that does not parse as a message
FrameKinds ==
    {[format |-> "valid", action |-> "getPet"],
     [format |-> "valid", action |-> "nope"],
     [format |-> "invalid", action |-> "none"]}

NoReply == [correlationId |-> 0, status |-> "none", payload |-> "none"]

NoRequest ==
    [client |-> "none", format |-> "none", type |-> "none", action |-> "none",
     correlationId |-> 0, status |-> "none", stage |-> "none",
     limited |-> FALSE, outcome |-> "none", reply |-> NoReply]

\* sendError up to its await of compress (lines 318-331 / 335-336): the envelope
\* carries the given correlationId, or a fresh one (0 here) when none is given
sendError(r, error, correlationId) ==
    [requests[r] EXCEPT !.stage = "compress",
        !.reply = [correlationId |-> correlationId, status |-> "error", payload |-> error]]

\* sendSuccess up to its await of compress (lines 298-307)
sendSuccess(r, payload, correlationId) ==
    [requests[r] EXCEPT !.stage = "compress",
        !.reply = [correlationId |-> correlationId, status |-> "success",
                   payload |-> payload]]

\* handleMessage up to its first await (lines 195-229): refused by the rate
\* limiter with an error envelope that is given no correlationId, else decompressed
RequestArrives(c, kind) ==
    /\ c \in clients
    /\ nextRequest <= MaxRequests
    /\ nextRequest' = nextRequest + 1
    /\ rateLimiter' = [rateLimiter EXCEPT ![c] = afterRateLimit(@)]
    /\ LET frame == [NoRequest EXCEPT !.client = c, !.format = kind.format,
                                      !.type = "request", !.action = kind.action,
                                      !.limited = isRateLimited(rateLimiter[c])]
       IN requests' = [requests EXCEPT ![nextRequest] =
              IF isRateLimited(rateLimiter[c])
              THEN [frame EXCEPT !.stage = "compress",
                       !.reply = [correlationId |-> 0, status |-> "error",
                                  payload |-> "Rate limit exceeded"]]
              ELSE [frame EXCEPT !.stage = "decompress"]]
    /\ UNCHANGED <<clients, pendingRequests, timeouts, nextCorrelation, decoding, settled,
                   outbox>>
    /\ UNCHANGED outsideRQ

handleRequest_drops_unknown(r) ==
    IF requests[r].action \notin Handlers
    THEN [requests[r] EXCEPT !.stage = "done"]
    ELSE [requests[r] EXCEPT !.stage = "handler"]

\* handleRequest up to its first await (lines 258-267): an unknown action is
\* answered with an error, else the handler is called
handleRequest(r) ==
    IF requests[r].action \notin Handlers
    THEN sendError(r, "Unknown action", r)
    ELSE [requests[r] EXCEPT !.stage = "handler"]

\* handleMessage resumed after decompress (lines 229-244): a frame that does
\* not parse is answered with an uncorrelated error, a request is dispatched
DecompressDone(r) ==
    /\ requests[r].stage = "decompress"
    /\ requests' = [requests EXCEPT ![r] =
           IF requests[r].format = "invalid"
           THEN sendError(r, "Invalid message format", 0)
           ELSE handleRequest(r)]
    /\ UNCHANGED <<wsvars, nextRequest, outbox>>
    /\ UNCHANGED outsideRQ

\* the handler awaited at line 267 resolves (line 268)
HandlerResolves(r) ==
    /\ requests[r].stage = "handler"
    /\ requests' = [requests EXCEPT ![r] =
           [sendSuccess(r, "result", r) EXCEPT !.outcome = "resolved"]]
    /\ UNCHANGED <<wsvars, nextRequest, outbox>>
    /\ UNCHANGED outsideRQ

\* the handler awaited at line 267 throws or rejects (lines 269-276)
HandlerThrows(r) ==
    /\ requests[r].stage = "handler"
    /\ requests' = [requests EXCEPT ![r] =
           [sendError(r, "boom", r) EXCEPT !.outcome = "threw"]]
    /\ UNCHANGED <<wsvars, nextRequest, outbox>>
    /\ UNCHANGED outsideRQ

\* sendSuccess / sendError resumed after compress (lines 308, 332, 337): the
\* envelope goes to the socket the frame came from
CompressDone(r) ==
    /\ requests[r].stage = "compress"
    /\ requests' = [requests EXCEPT ![r].stage = "done"]
    /\ outbox' = [outbox EXCEPT ![requests[r].client] = Append(@, requests[r].reply)]
    /\ UNCHANGED <<wsvars, nextRequest>>
    /\ UNCHANGED outsideRQ

InitRQ ==
    /\ requests = [r \in RequestIds |-> NoRequest]
    /\ nextRequest = 1
    /\ outbox = [c \in ClientIds |-> <<>>]

NextRQ ==
    \/ \E c \in ClientIds : AddClient(c)
    \/ \E c \in ClientIds : RemoveClient(c)
    \/ \E c \in ClientIds : FrameDropped(c)
    \/ \E c \in ClientIds, kind \in FrameKinds : RequestArrives(c, kind)
    \/ \E r \in RequestIds : DecompressDone(r)
    \/ \E r \in RequestIds : HandlerResolves(r)
    \/ \E r \in RequestIds : HandlerThrows(r)
    \/ \E r \in RequestIds : CompressDone(r)

(***************************************************************************)
(* WebSocketManager (part_016): inbound response and notification frames   *)
(***************************************************************************)
\* the well-formed frames that are not requests: a notification, and a response
\* for each correlationId and status
InboundFrames ==
    {[type |-> "notification", correlationId |-> 0, status |-> "none"]}
        \cup [type : {"response"}, correlationId : CorrelationIds, status : Status]

\* handleMessage up to its first await (lines 195-229), for such a frame
InboundArrives(c, frame) ==
    /\ c \in clients
    /\ nextRequest <= MaxRequests
    /\ nextRequest' = nextRequest + 1
    /\ rateLimiter' = [rateLimiter EXCEPT ![c] = afterRateLimit(@)]
    /\ LET slot == [NoRequest EXCEPT !.client = c, !.format = "valid",
                                     !.type = frame.type,
                                     !.correlationId = frame.correlationId,
                                     !.status = frame.status,
                                     !.limited = isRateLimited(rateLimiter[c])]
       IN requests' = [requests EXCEPT ![nextRequest] =
              IF isRateLimited(rateLimiter[c])
              THEN [slot EXCEPT !.stage = "compress",
                       !.reply = [correlationId |-> 0, status |-> "error",
                                  payload |-> "Rate limit exceeded"]]
              ELSE [slot EXCEPT !.stage = "decode"]]
    /\ UNCHANGED <<clients, pendingRequests, timeouts, nextCorrelation, decoding, settled,
                   outbox>>
    /\ UNCHANGED outsideRQ

dispatchFrame_answers_unmatched(r) ==
    IF requests[r].type = "response" /\ requests[r].correlationId \notin pendingRequests
    THEN sendError(r, "No pending request", requests[r].correlationId)
    ELSE [requests[r] EXCEPT !.stage = "done"]

\* the frame after the switch of handleMessage (lines 241-251): neither
\* handleResponse (lines 279-291) nor the notification case sends anything
dispatchFrame(r) == [requests[r] EXCEPT !.stage = "done"]

\* handleMessage resumed after decompress with a response or a notification
\* (lines 229-251): handleResponse settles the PendingRequest of the
\* correlationId if there is one
DispatchInbound(r) ==
    /\ requests[r].stage = "decode"
    /\ requests' = [requests EXCEPT ![r] = dispatchFrame(r)]
    /\ IF requests[r].type = "response" /\ requests[r].correlationId \in pendingRequests
       THEN /\ timeouts' = timeouts \ {requests[r].correlationId}
            /\ pendingRequests' = pendingRequests \ {requests[r].correlationId}
            /\ settled' = [settled EXCEPT ![requests[r].correlationId] =
                   IF requests[r].status = "success" THEN [@ EXCEPT !.resolve = @ + 1]
                                                     ELSE [@ EXCEPT !.reject = @ + 1]]
       ELSE UNCHANGED <<timeouts, pendingRequests, settled>>
    /\ UNCHANGED <<clients, rateLimiter, nextCorrelation, decoding, nextRequest, outbox>>
    /\ UNCHANGED outsideRQ

NextIN ==
    \/ \E c \in ClientIds : AddClient(c)
    \/ \E c \in ClientIds : SendRequest(c)
    \/ \E k \in CorrelationIds : RequestTimeout(k)
    \/ \E c \in ClientIds, frame \in InboundFrames : InboundArrives(c, frame)
    \/ \E r \in RequestIds : DispatchInbound(r)
    \/ \E r \in RequestIds : CompressDone(r)

(***************************************************************************)
(* WebSocketManager (part_016): broadcast                                  *)
(***************************************************************************)
BroadcastIds == 1..MaxBroadcasts

Events == {"petUpdated"}

\* payloads given to broadcast: a string, and a number that JSON has no text for
Payloads == {"pet", "NaN"}

\* filters given to broadcast: none, or a predicate that holds for c1 only
Filters == {"none", "c1only"}

\* !filter || filter(client) (line 185)
filterAccepts(filter, c) == filter = "none" \/ c = "c1"

\* JSON.stringify of a payload (line 178): NaN is written as null
JSONstringify(payload) == IF payload = "NaN" THEN <<"null">> ELSE <<"string", payload>>

\* JSON.parse, by the receiver, of the text of a payload
JSONparse(text) == IF text = <<"null">> THEN "null" ELSE text[2]

NoBroadcast == [event |-> "none", payload |-> "none", filter |-> "none", stage |-> "none"]

\* the readyState of a socket leaves OPEN
SocketCloses(c) ==
    /\ c \notin closed
    /\ closed' = closed \cup {c}
    /\ UNCHANGED <<broadcasts, nextBroadcast, notified>>
    /\ UNCHANGED outsideBC

\* broadcast up to its await of compress (lines 170-179); the envelope's
\* correlationId is fresh
BroadcastCall(event, payload, filter) ==
    /\ nextBroadcast <= MaxBroadcasts
    /\ nextBroadcast' = nextBroadcast + 1
    /\ broadcasts' = [broadcasts EXCEPT ![nextBroadcast] =
           [event |-> event, payload |-> payload, filter |-> filter, stage |-> "compress"]]
    /\ UNCHANGED <<closed, notified>>
    /\ UNCHANGED outsideBC

\* the sockets broadcast sends to (lines 182-186)
broadcastTargets_any_state(b) ==
    {c \in clients : filterAccepts(broadcasts[b].filter, c)}

broadcastTargets(b) ==
    {c \in clients : c \notin closed /\ filterAccepts(broadcasts[b].filter, c)}

\* broadcast resumed after compress (lines 180-191): the text is sent to every
\* client in the table whose socket is OPEN and that the filter accepts
BroadcastSend(b) ==
    /\ broadcasts[b].stage = "compress"
    /\ broadcasts' = [broadcasts EXCEPT ![b].stage = "sent"]
    /\ notified' = [c \in ClientIds |->
           IF c \in broadcastTargets(b)
           THEN Append(notified[c],
                    [type |-> "notification", correlationId |-> b,
                     event |-> broadcasts[b].event,
                     payload |-> JSONstringify(broadcasts[b].payload)])
           ELSE notified[c]]
    /\ UNCHANGED <<closed, nextBroadcast>>
    /\ UNCHANGED outsideBC

InitBC ==
    /\ closed = {}
    /\ broadcasts = [b \in BroadcastIds |-> NoBroadcast]
    /\ nextBroadcast = 1
    /\ notified = [c \in ClientIds |-> <<>>]

NextBC ==
    \/ \E c \in ClientIds : AddClient(c)
    \/ \E c \in ClientIds : RemoveClient(c)
    \/ \E c \in ClientIds : SocketCloses(c)
    \/ \E event \in Events, payload \in Payloads, filter \in Filters :
           BroadcastCall(event, payload, filter)
    \/ \E b \in BroadcastIds : BroadcastSend(b)

(***************************************************************************)
(* LoadBalancer (src/websocket/LoadBalancer.ts), for one node that was     *)
(* added active. The two interval callbacks await checkNodeHealth; what    *)
(* they read before the await is kept in the pending check.                *)
(***************************************************************************)
\* markNodeUnhealthy (lines 107-117)
MarkNodeUnhealthy ==
    /\ failureCount < MaxFailureCount
    /\ failureCount' = failureCount + 1
    /\ IF failureCount + 1 >= LBMaxFailures
       THEN nodeActive' = FALSE /\ lbEmitted' = {"node_down"}
       ELSE UNCHANGED nodeActive /\ lbEmitted' = {}
    /\ UNCHANGED checks
    /\ UNCHANGED outsideLB

\* the health check callback reaches the node (lines 164-166)
HealthCheckStarts ==
    /\ BagCardinality(checks) < MaxChecks
    /\ checks' = checks (+) SetToBag({[kind |-> "health", wasActive |-> nodeActive]})
    /\ lbEmitted' = {}
    /\ UNCHANGED <<nodeActive, failureCount>>
    /\ UNCHANGED outsideLB

\* checkNodeHealth returns to the health check callback (lines 166-184)
HealthCheckEnds(chk, isHealthy) ==
    /\ BagIn(chk, checks)
    /\ chk.kind = "health"
    /\ ~isHealthy => failureCount < MaxFailureCount
    /\ checks' = checks (-) SetToBag({chk})
    /\ IF ~isHealthy
       THEN /\ failureCount' = failureCount + 1
            /\ IF failureCount + 1 >= LBMaxFailures /\ chk.wasActive
               THEN nodeActive' = FALSE /\ lbEmitted' = {"node_down"}
               ELSE UNCHANGED nodeActive /\ lbEmitted' = {}
       ELSE /\ failureCount' = 0
            /\ IF ~chk.wasActive
               THEN nodeActive' = TRUE /\ lbEmitted' = {"node_up"}
               ELSE UNCHANGED nodeActive /\ lbEmitted' = {}
    /\ UNCHANGED outsideLB

\* the recovery callback reaches the node, which is inactive (lines 191-194)
RecoveryCheckStarts ==
    /\ ~nodeActive
    /\ BagCardinality(checks) < MaxChecks
    /\ checks' = checks (+) SetToBag({[kind |-> "recovery", wasActive |-> FALSE]})
    /\ lbEmitted' = {}
    /\ UNCHANGED <<nodeActive, failureCount>>
    /\ UNCHANGED outsideLB

\* checkNodeHealth returns to the recovery callback (lines 194-200)
RecoveryCheckEnds(chk, isHealthy) ==
    /\ BagIn(chk, checks)
    /\ chk.kind = "recovery"
    /\ checks' = checks (-) SetToBag({chk})
    /\ IF isHealthy
       THEN failureCount' = 0 /\ nodeActive' = TRUE /\ lbEmitted' = {"node_recovered"}
       ELSE UNCHANGED <<failureCount, nodeActive>> /\ lbEmitted' = {}
    /\ UNCHANGED outsideLB

InitLB ==
    /\ nodeActive = TRUE
    /\ failureCount = 0
    /\ checks = EmptyBag
    /\ lbEmitted = {}

NextLB ==
    \/ MarkNodeUnhealthy
    \/ HealthCheckStarts
    \/ \E chk \in BagToSet(checks), isHealthy \in BOOLEAN : HealthCheckEnds(chk, isHealthy)
    \/ RecoveryCheckStarts
    \/ \E chk \in BagToSet(checks), isHealthy \in BOOLEAN : RecoveryCheckEnds(chk, isHealthy)

(***************************************************************************)
(* SecurityManager (src/websocket/SecurityManager.ts): the token table     *)
(* this.tokens and the per-user index this.userTokens. A Map is a function *)
(* whose domain is the set of its keys. Every method is synchronous, so    *)
(* each call is one step.                                                  *)
(***************************************************************************)
UserIds == {"u1", "u2"}

TokenIds == 1..MaxTokens

\* Map.delete of every key outside keys
Restrict(map, keys) == [k \in keys |-> map[k]]

\* userTokens.delete(token) followed by the size test and
\* this.userTokens.delete(userId) (lines 157-160, 172-175)
deleteFromIndex(index, userId, removed) ==
    IF userId \notin DOMAIN index THEN index
    ELSE IF index[userId] \ removed = {}
         THEN Restrict(index, DOMAIN index \ {userId})
         ELSE [index EXCEPT ![userId] = @ \ removed]

\* cleanupUserTokens (lines 133-148): both maps after the call
cleanupUserTokens(userId) ==
    IF userId \notin DOMAIN userTokens
    THEN [tokens |-> tokens, userTokens |-> userTokens, removed |-> {}]
    ELSE LET gone == {tk \in userTokens[userId] :
                         tk \notin DOMAIN tokens \/ tokens[tk].expiresAt < now}
         IN  [tokens     |-> Restrict(tokens, DOMAIN tokens \ gone),
              userTokens |-> deleteFromIndex(userTokens, userId, gone),
              removed    |-> gone \cap DOMAIN tokens]

\* generateToken (lines 39-61); token is what randomBytes returns, a value
\* that is not in use
GenerateToken(userId, token) ==
    /\ token \notin DOMAIN tokens
    /\ \A u \in DOMAIN userTokens : token \notin userTokens[u]
    /\ LET cleaned      == cleanupUserTokens(userId)
           userTokenSet == IF userId \in DOMAIN cleaned.userTokens
                           THEN cleaned.userTokens[userId] ELSE {}
       IN  IF Cardinality(userTokenSet) >= MaxTokensPerUser
           THEN /\ tokens' = cleaned.tokens
                /\ userTokens' = cleaned.userTokens
                /\ lastOp' = [op |-> "generateToken", removed |-> cleaned.removed,
                              threw |-> TRUE]
           ELSE /\ tokens' = [tk \in DOMAIN cleaned.tokens \cup {token} |->
                                 IF tk = token
                                 THEN [userId |-> userId,
                                       expiresAt |-> now + TokenExpiration]
                                 ELSE cleaned.tokens[tk]]
                /\ userTokens' = [u \in DOMAIN cleaned.userTokens \cup {userId} |->
                                     IF u = userId THEN userTokenSet \cup {token}
                                     ELSE cleaned.userTokens[u]]
                /\ lastOp' = [op |-> "generateToken", removed |-> cleaned.removed,
                              threw |-> FALSE]
    /\ UNCHANGED now
    /\ UNCHANGED outsideSM

\* cleanupExpiredTokens (lines 150-164)
RECURSIVE cleanupIndex(_, _)
cleanupIndex(index, expired) ==
    IF expired = {} THEN index
    ELSE LET tk == CHOOSE x \in expired : TRUE
         IN  cleanupIndex(deleteFromIndex(index, tokens[tk].userId, {tk}),
                          expired \ {tk})

CleanupExpiredTokens ==
    LET expired == {tk \in DOMAIN tokens : tokens[tk].expiresAt < now}
    IN  /\ tokens' = Restrict(tokens, DOMAIN tokens \ expired)
        /\ userTokens' = cleanupIndex(userTokens, expired)
        /\ lastOp' = [op |-> "cleanupExpiredTokens", removed |-> expired, threw |-> FALSE]
        /\ UNCHANGED now
        /\ UNCHANGED outsideSM

\* revokeToken (lines 166-178)
RevokeToken(token) ==
    /\ IF token \in DOMAIN tokens
       THEN /\ tokens' = Restrict(tokens, DOMAIN tokens \ {token})
            /\ userTokens' = deleteFromIndex(userTokens, tokens[token].userId, {token})
            /\ lastOp' = [op |-> "revokeToken", removed |-> {token}, threw |-> FALSE]
       ELSE /\ UNCHANGED <<tokens, userTokens>>
            /\ lastOp' = [op |-> "revokeToken", removed |-> {}, threw |-> FALSE]
    /\ UNCHANGED now
    /\ UNCHANGED outsideSM

\* the loop of revokeUserTokens (lines 183-185): this.tokens after it
revokeUserTokens_keeps_table(userId) ==
    tokens

revokeUserTokens(userId) ==
    Restrict(tokens, DOMAIN tokens \ userTokens[userId])

\* revokeUserTokens (lines 180-188)
RevokeUserTokens(userId) ==
    /\ IF userId \in DOMAIN userTokens
       THEN /\ tokens' = revokeUserTokens(userId)
            /\ userTokens' = Restrict(userTokens, DOMAIN userTokens \ {userId})
            /\ lastOp' = [op |-> "revokeUserTokens",
                          removed |-> userTokens[userId] \cap DOMAIN tokens,
                          threw |-> FALSE]
       ELSE /\ UNCHANGED <<tokens, userTokens>>
            /\ lastOp' = [op |-> "revokeUserTokens", removed |-> {}, threw |-> FALSE]
    /\ UNCHANGED now
    /\ UNCHANGED outsideSM

\* time passes between two calls
ClockAdvances ==
    /\ now < MaxNow
    /\ now' = now + 1
    /\ UNCHANGED <<tokens, userTokens, lastOp>>
    /\ UNCHANGED outsideSM

InitSM ==
    /\ tokens = <<>>
    /\ userTokens = <<>>
    /\ now = 0
    /\ lastOp = [op |-> "none", removed |-> {}, threw |-> FALSE]

NextSM ==
    \/ \E userId \in UserIds, token \in TokenIds : GenerateToken(userId, token)
    \/ CleanupExpiredTokens
    \/ \E token \in TokenIds : RevokeToken(token)
    \/ \E userId \in UserIds : RevokeUserTokens(userId)
    \/ ClockAdvances

(***************************************************************************)
(* ClusterManager (part_019): the nodes of NodeIds have all called start() *)
(* and share the heartbeat channel. A live node's heartbeats reach the     *)
(* others within nodeTimeout; the entry of a peer grows stale only after   *)
(* the peer has stopped and its last heartbeat has been handled.           *)
(***************************************************************************)
NodeIds == {"n1", "n2", "n3"}

\* the interval callback sendHeartbeat (lines 116-130): the heartbeat goes to
\* every subscriber of the channel, the sender included
SendHeartbeat(n) ==
    /\ n \notin crashed
    /\ inflight' = inflight \cup {<<n, r>> : r \in NodeIds \ crashed}
    /\ UNCHANGED <<crashed, peers, nodeTimeouts>>
    /\ UNCHANGED outsideCL

\* the entries that the loop of lines 151-157 deletes
deadNodes(r, s) == {p \in NodeIds \ {s} : peers[r][p] = "stale"}

\* handleHeartbeat (lines 132-158) for a heartbeat of s received by r: the
\* node's own heartbeat is dropped at line 141; else the entry of s is
\* refreshed and the stale entries are pruned with node_timeout
HandleHeartbeat(s, r) ==
    /\ <<s, r>> \in inflight
    /\ inflight' = inflight \ {<<s, r>>}
    /\ IF s = r
       THEN UNCHANGED <<peers, nodeTimeouts>>
       ELSE /\ peers' = [peers EXCEPT ![r] =
                   [p \in NodeIds |-> IF p = s THEN "fresh"
                                      ELSE IF p \in deadNodes(r, s) THEN "absent"
                                      ELSE peers[r][p]]]
            /\ nodeTimeouts' = [nodeTimeouts EXCEPT ![r] = @ \cup deadNodes(r, s)]
    /\ UNCHANGED crashed
    /\ UNCHANGED outsideCL

\* a node stops publishing and handling without node_leave (process killed)
NodeCrashes(n) ==
    /\ n \notin crashed
    /\ crashed' = crashed \cup {n}
    /\ inflight' = {m \in inflight : m[2] # n}
    /\ UNCHANGED <<peers, nodeTimeouts>>
    /\ UNCHANGED outsideCL

\* more than nodeTimeout passes since r last handled a heartbeat of p (line 153)
EntryExpires(r, p) ==
    /\ r \notin crashed
    /\ p \in crashed
    /\ <<p, r>> \notin inflight
    /\ peers[r][p] = "fresh"
    /\ peers' = [peers EXCEPT ![r][p] = "stale"]
    /\ UNCHANGED <<crashed, inflight, nodeTimeouts>>
    /\ UNCHANGED outsideCL

InitCL ==
    /\ crashed = {}
    /\ inflight = {}
    /\ peers = [r \in NodeIds |-> [p \in NodeIds |-> "absent"]]
    /\ nodeTimeouts = [r \in NodeIds |-> {}]

NextCL ==
    \/ \E n \in NodeIds : SendHeartbeat(n)
    \/ \E s \in NodeIds, r \in NodeIds : HandleHeartbeat(s, r)
    \/ \E n \in NodeIds : NodeCrashes(n)
    \/ \E r \in NodeIds, p \in NodeIds : EntryExpires(r, p)

(***************************************************************************)
(* MessageQueue.processMessage (part_017:192-229), the listeners of one    *)
(* attempt: the copy of the listener list is walked in order, each         *)
(* listener awaited before the next is called.                             *)
(***************************************************************************)
AttemptIds == 1..MaxAttempts

NoAttempt ==
    [listeners |-> 0, awaited |-> 0, invoked |-> {}, timer |-> "cleared", outcome |-> "idle"]

\* on('message', listener) (lines 297-304)
OnMessage ==
    /\ registered < MaxListeners
    /\ registered' = registered + 1
    /\ UNCHANGED attempts
    /\ UNCHANGED outsideML

\* the attempt goes on after listener k returned (lines 203-223): the next
\* listener of the copy is called, or the timer is cleared after the last one
afterListener(at, k) ==
    IF k < at.listeners
    THEN [at EXCEPT !.awaited = k + 1, !.invoked = @ \cup {k + 1}]
    ELSE [at EXCEPT !.awaited = 0, !.outcome = "processed",
             !.timer = IF @ = "armed" THEN "cleared" ELSE @]

\* processMessage is called (lines 193-206): the timer is armed, the listener
\* list copied and its first listener called
AttemptStarts(a) ==
    /\ attempts[a].outcome = "idle"
    /\ attempts' = [attempts EXCEPT ![a] =
           afterListener([NoAttempt EXCEPT !.listeners = registered, !.timer = "armed",
                                           !.outcome = "running"], 0)]
    /\ UNCHANGED registered
    /\ UNCHANGED outsideML

\* the awaited listener resolves (line 206)
AttemptListenerResolves(a) ==
    /\ attempts[a].awaited > 0
    /\ attempts' = [attempts EXCEPT ![a] = afterListener(@, @.awaited)]
    /\ UNCHANGED registered
    /\ UNCHANGED outsideML

\* the awaited listener throws or rejects: the catch branch (lines 224-228)
\* clears the timer and calls handleMessageError
AttemptListenerRejects(a) ==
    /\ attempts[a].awaited > 0
    /\ attempts' = [attempts EXCEPT ![a] =
           [@ EXCEPT !.awaited = 0, !.outcome = "error",
                     !.timer = IF @ = "armed" THEN "cleared" ELSE @]]
    /\ UNCHANGED registered
    /\ UNCHANGED outsideML

\* the processing timer fires (lines 194-196): handleMessageTimeout runs, the
\* walk through the listeners goes on
AttemptTimeout(a) ==
    /\ attempts[a].timer = "armed"
    /\ attempts' = [attempts EXCEPT ![a].timer = "fired"]
    /\ UNCHANGED registered
    /\ UNCHANGED outsideML

InitML ==
    /\ registered = 0
    /\ attempts = [a \in AttemptIds |-> NoAttempt]

NextML ==
    \/ OnMessage
    \/ \E a \in AttemptIds : AttemptStarts(a)
    \/ \E a \in AttemptIds : AttemptListenerResolves(a)
    \/ \E a \in AttemptIds : AttemptListenerRejects(a)
    \/ \E a \in AttemptIds : AttemptTimeout(a)

(***************************************************************************)
(* HeartbeatMonitor (part_021), started on a map that holds every socket   *)
(* of ClientIds. pongTimeouts keeps one timer per socket: a ping sent      *)
(* while the timer of the ping before it is pending replaces the map entry *)
(* and leaves that timer armed (lines 37-48).                              *)
(***************************************************************************)
NoHeartbeat ==
    [entry |-> "none", stray |-> 0, strayAnswered |-> 0, missed |-> 0, onPong |-> FALSE]

\* the pong timers of a socket that are armed
armedTimers(h) == (IF h.entry = "armed" THEN 1 ELSE 0) + h.stray + h.strayAnswered

\* cleanup (lines 86-93): the timer in the map is cleared, both entries deleted
cleanup(h) == [h EXCEPT !.entry = "none", !.missed = 0]

\* the ping of one socket in the interval callback (lines 31-63)
pingSocket(c) ==
    IF c \in closed
    THEN cleanup(heartbeat[c])
    ELSE [heartbeat[c] EXCEPT !.entry = "armed", !.onPong = TRUE,
             !.stray = IF heartbeat[c].entry = "armed" THEN @ + 1 ELSE @]

\* the interval callback (lines 30-64), for every socket of the map
HeartbeatTick ==
    /\ ticking
    /\ \A c \in ClientIds : c \notin closed => armedTimers(heartbeat[c]) < MaxTimers
    /\ heartbeat' = [c \in ClientIds |-> pingSocket(c)]
    /\ UNCHANGED <<ticking, reported, unansweredFired>>
    /\ UNCHANGED outsideHB

\* a pong arrives: the handlers registered by once('pong') run (lines 51-58);
\* every ping sent so far is answered
PongArrives(c) ==
    /\ c \notin closed
    /\ heartbeat' = [heartbeat EXCEPT ![c] =
           [(IF @.onPong /\ @.entry # "none" THEN cleanup(@) ELSE @) EXCEPT
               !.onPong = FALSE,
               !.strayAnswered = @ + heartbeat[c].stray,
               !.stray = 0]]
    /\ UNCHANGED <<ticking, reported, unansweredFired>>
    /\ UNCHANGED outsideHB

\* the pong timeout callback (lines 38-45) of the timer `which` of socket c
PongTimeoutFires(c, which) ==
    /\ \/ which = "entry" /\ heartbeat[c].entry = "armed"
       \/ which = "stray" /\ heartbeat[c].stray > 0
       \/ which = "strayAnswered" /\ heartbeat[c].strayAnswered > 0
    /\ LET fired == CASE which = "entry" -> [heartbeat[c] EXCEPT !.entry = "fired"]
                      [] which = "stray" -> [heartbeat[c] EXCEPT !.stray = @ - 1]
                      [] OTHER -> [heartbeat[c] EXCEPT !.strayAnswered = @ - 1]
           missed == heartbeat[c].missed + 1
       IN IF missed >= MaxMissedHeartbeats
          THEN /\ heartbeat' = [heartbeat EXCEPT ![c] = cleanup(fired)]
               /\ reported' = [reported EXCEPT ![c] = TRUE]
          ELSE /\ heartbeat' = [heartbeat EXCEPT ![c] = [fired EXCEPT !.missed = missed]]
               /\ UNCHANGED reported
    /\ unansweredFired' =
           [unansweredFired EXCEPT ![c] = @ \/ which \in {"entry", "stray"}]
    /\ UNCHANGED ticking
    /\ UNCHANGED outsideHB

\* removeClient(socket) (lines 82-84)
HeartbeatRemoveClient(c) ==
    /\ heartbeat' = [heartbeat EXCEPT ![c] = cleanup(@)]
    /\ UNCHANGED <<ticking, reported, unansweredFired>>
    /\ UNCHANGED outsideHB

\* stop() (lines 70-80), also the head of start (line 27)
HeartbeatStop ==
    /\ ticking' = FALSE
    /\ heartbeat' = [c \in ClientIds |-> cleanup(heartbeat[c])]
    /\ UNCHANGED <<reported, unansweredFired>>
    /\ UNCHANGED outsideHB

\* start(clients, onTimeout) (lines 23-68)
HeartbeatStart ==
    /\ ticking' = TRUE
    /\ heartbeat' = [c \in ClientIds |-> cleanup(heartbeat[c])]
    /\ UNCHANGED <<reported, unansweredFired>>
    /\ UNCHANGED outsideHB

InitHB ==
    /\ heartbeat = [c \in ClientIds |-> NoHeartbeat]
    /\ ticking = FALSE
    /\ reported = [c \in ClientIds |-> FALSE]
    /\ unansweredFired = [c \in ClientIds |-> FALSE]

NextHB ==
    \/ HeartbeatStart
    \/ HeartbeatStop
    \/ HeartbeatTick
    \/ \E c \in ClientIds : PongArrives(c)
    \/ \E c \in ClientIds, which \in {"entry", "stray", "strayAnswered"} :
           PongTimeoutFires(c, which)
    \/ \E c \in ClientIds : HeartbeatRemoveClient(c)
    \/ \E c \in ClientIds : SocketCloses(c)

(***************************************************************************)
(* WebSocketManager (part_016:77-123) with the ConnectionMetrics           *)
(* (ConnectionMetrics.ts) and the HeartbeatMonitor (part_021) it owns.     *)
(* Every clientId is a fresh randomUUID, so an id is added at most once.   *)
(***************************************************************************)
\* ConnectionMetrics.onDisconnection (lines 32-34)
onDisconnection == IF activeConnections - 1 > 0 THEN activeConnections - 1 ELSE 0

disconnected_unguarded(c) == onDisconnection

\* this.metrics.activeConnections after removeClient(c) (part_016:110-115)
disconnected(c) == IF c \in clients THEN onDisconnection ELSE activeConnections

\* removeClient(c) (part_016:109-123) called while the monitor's maps are hb:
\* the fields it writes, after the call
removeClient(c, hb) ==
    IF c \in clients
    THEN LET detached == [hb EXCEPT ![c] = cleanup(@)]
         IN  [clients     |-> clients \ {c},
              rateLimiter |-> [rateLimiter EXCEPT ![c] = NoWindow],
              heartbeat   |-> IF clients \ {c} = {}
                              THEN [k \in ClientIds |-> cleanup(detached[k])]
                              ELSE detached,
              ticking     |-> IF clients \ {c} = {} THEN FALSE ELSE ticking]
    ELSE [clients |-> clients, rateLimiter |-> rateLimiter, heartbeat |-> hb,
          ticking |-> ticking]

\* addClient (part_016:77-107)
ManagerAddClient(c) ==
    /\ c \notin issued
    /\ issued' = issued \cup {c}
    /\ clients' = clients \cup {c}
    /\ activeConnections' = activeConnections + 1
    /\ IF clients = {}
       THEN /\ ticking' = TRUE
            /\ heartbeat' = [k \in ClientIds |-> cleanup(heartbeat[k])]
       ELSE UNCHANGED <<ticking, heartbeat>>
    /\ UNCHANGED <<rateLimiter, pendingRequests, timeouts, nextCorrelation, decoding,
                   settled, reported, unansweredFired, absentRemovals>>
    /\ UNCHANGED outsideCM

\* removeClient (part_016:109-123), called by the socket's close listener or by
\* any other caller, for any id
ManagerRemoveClient(c) ==
    /\ c \notin clients => absentRemovals < MaxAbsentRemovals
    /\ clients' = removeClient(c, heartbeat).clients
    /\ rateLimiter' = removeClient(c, heartbeat).rateLimiter
    /\ heartbeat' = removeClient(c, heartbeat).heartbeat
    /\ ticking' = removeClient(c, heartbeat).ticking
    /\ activeConnections' = disconnected(c)
    /\ absentRemovals' = IF c \in clients THEN absentRemovals ELSE absentRemovals + 1
    /\ UNCHANGED <<pendingRequests, timeouts, nextCorrelation, decoding, settled,
                   reported, unansweredFired, issued>>
    /\ UNCHANGED outsideCM

\* the interval callback of the monitor (part_021:30-64) over this.clients
ManagerHeartbeatTick ==
    /\ ticking
    /\ \A c \in clients : armedTimers(heartbeat[c]) < MaxTimers
    /\ heartbeat' = [c \in ClientIds |-> IF c \in clients THEN pingSocket(c)
                                         ELSE heartbeat[c]]
    /\ UNCHANGED <<ticking, reported, unansweredFired>>
    /\ UNCHANGED wsvars
    /\ UNCHANGED cmvars
    /\ UNCHANGED outsideCM

\* the pong timeout callback (part_021:38-45) of the timer `which` of the socket
\* of c; onTimeout is the callback given at part_016:95-103, which removes the
\* client whose socket it is, if one is in the table
ManagerPongTimeout(c, which) ==
    /\ \/ which = "entry" /\ heartbeat[c].entry = "armed"
       \/ which = "stray" /\ heartbeat[c].stray > 0
       \/ which = "strayAnswered" /\ heartbeat[c].strayAnswered > 0
    /\ LET fired == CASE which = "entry" -> [heartbeat[c] EXCEPT !.entry = "fired"]
                      [] which = "stray" -> [heartbeat[c] EXCEPT !.stray = @ - 1]
                      [] OTHER -> [heartbeat[c] EXCEPT !.strayAnswered = @ - 1]
           missed == heartbeat[c].missed + 1
           counted == [heartbeat EXCEPT ![c] = [fired EXCEPT !.missed = missed]]
       IN IF missed >= MaxMissedHeartbeats
          THEN /\ clients' = removeClient(c, counted).clients
               /\ rateLimiter' = removeClient(c, counted).rateLimiter
               /\ heartbeat' = [removeClient(c, counted).heartbeat EXCEPT ![c] = cleanup(@)]
               /\ ticking' = removeClient(c, counted).ticking
               /\ activeConnections' = disconnected(c)
          ELSE /\ heartbeat' = counted
               /\ UNCHANGED <<clients, rateLimiter, ticking, activeConnections>>
    /\ UNCHANGED <<pendingRequests, timeouts, nextCorrelation, decoding, settled,
                   reported, unansweredFired, issued, absentRemovals>>
    /\ UNCHANGED outsideCM

InitCM ==
    /\ activeConnections = 0
    /\ issued = {}
    /\ absentRemovals = 0

NextCM ==
    \/ \E c \in ClientIds : ManagerAddClient(c)
    \/ \E c \in ClientIds : ManagerRemoveClient(c)
    \/ ManagerHeartbeatTick
    \/ \E c \in ClientIds : PongArrives(c)
    \/ \E c \in ClientIds, which \in {"entry", "stray", "strayAnswered"} :
           ManagerPongTimeout(c, which)
    \/ \E c \in ClientIds : SendRequestLimited(c)
    \/ \E c \in ClientIds : SendRequest(c)

(***************************************************************************)
(* SecurityManager.validateConnection (SecurityManager.ts:63-103) and the  *)
(* connections it admits. An ip without an entry is read as count 0.       *)
(***************************************************************************)
IpAddresses == {"ip1", "ip2"}

\* the call returns at line 81
ipRefused(ipConn) == ipConn.count >= MaxConnectionsPerIp /\ ~ipConn.cooled

\* the entry of the ip after the limit test of lines 78-84 when it goes on
afterIpLimit(ipConn) ==
    IF ipConn.count >= MaxConnectionsPerIp THEN [ipConn EXCEPT !.count = 0] ELSE ipConn

\* validateConnection (lines 63-103)
ValidateConnection(ip, originAllowed, tokenValid) ==
    /\ openConnections[ip] < MaxOpenConnections
    /\ IF ~originAllowed
       THEN /\ lastVerdict' = "Origin not allowed"
            /\ UNCHANGED <<ipConnections, openConnections>>
       ELSE IF ipRefused(ipConnections[ip])
       THEN /\ lastVerdict' = "Too many connections from this IP"
            /\ UNCHANGED <<ipConnections, openConnections>>
       ELSE /\ ipConnections' = [ipConnections EXCEPT ![ip] =
                   [count |-> afterIpLimit(@).count + 1, cooled |-> FALSE]]
            /\ IF tokenValid
               THEN /\ lastVerdict' = ""
                    /\ openConnections' = [openConnections EXCEPT ![ip] = @ + 1]
               ELSE /\ lastVerdict' = "Invalid or expired token"
                    /\ UNCHANGED openConnections
    /\ UNCHANGED outsideIP

\* a connection that was accepted closes
ConnectionCloses(ip) ==
    /\ openConnections[ip] > 0
    /\ openConnections' = [openConnections EXCEPT ![ip] = @ - 1]
    /\ UNCHANGED <<ipConnections, lastVerdict>>
    /\ UNCHANGED outsideIP

\* a minute passes since the latest counted attempt of the ip
CooldownElapses(ip) ==
    /\ ~ipConnections[ip].cooled
    /\ ipConnections' = [ipConnections EXCEPT ![ip].cooled = TRUE]
    /\ UNCHANGED <<openConnections, lastVerdict>>
    /\ UNCHANGED outsideIP

InitIP ==
    /\ ipConnections = [ip \in IpAddresses |-> [count |-> 0, cooled |-> TRUE]]
    /\ openConnections = [ip \in IpAddresses |-> 0]
    /\ lastVerdict = ""

NextIP ==
    \/ \E ip \in IpAddresses, originAllowed \in BOOLEAN, tokenValid \in BOOLEAN :
           ValidateConnection(ip, originAllowed, tokenValid)
    \/ \E ip \in IpAddresses : ConnectionCloses(ip)
    \/ \E ip \in IpAddresses : CooldownElapses(ip)

(***************************************************************************)
(* WebSocketManager (part_016): sendRequest to one connection and response *)
(* frames received on any connection.                                      *)
(***************************************************************************)
\* sendRequest(c, ...) when admitted (lines 129-163)
RequestSentTo(c) ==
    /\ c \in clients
    /\ ~isRateLimited(rateLimiter[c])
    /\ nextCorrelation <= MaxCorrelation
    /\ rateLimiter' = [rateLimiter EXCEPT ![c] = afterRateLimit(@)]
    /\ pendingRequests' = pendingRequests \cup {nextCorrelation}
    /\ timeouts' = timeouts \cup {nextCorrelation}
    /\ sentTo' = [sentTo EXCEPT ![nextCorrelation] = c]
    /\ nextCorrelation' = nextCorrelation + 1
    /\ UNCHANGED <<clients, decoding, settled, arrived, settledBy>>
    /\ UNCHANGED outsideXC

\* handleMessage(c, data) up to the await of decompress (lines 194-229), for a
\* response frame with correlationId k received on connection c
ResponseArrivesOn(c, k, status) ==
    /\ c \in clients
    /\ k < nextCorrelation
    /\ rateLimiter' = [rateLimiter EXCEPT ![c] = afterRateLimit(@)]
    /\ IF isRateLimited(rateLimiter[c])
       THEN UNCHANGED arrived
       ELSE /\ Cardinality(arrived) < MaxDecoding
            /\ [connection |-> c, correlationId |-> k, status |-> status] \notin arrived
            /\ arrived' = arrived \cup
                   {[connection |-> c, correlationId |-> k, status |-> status]}
    /\ UNCHANGED <<clients, pendingRequests, timeouts, nextCorrelation, decoding, settled,
                   sentTo, settledBy>>
    /\ UNCHANGED outsideXC

\* handleMessage after the await, dispatching the frame to handleResponse
\* (lines 231-246, 279-291)
ResponseDispatched(f) ==
    /\ f \in arrived
    /\ arrived' = arrived \ {f}
    /\ IF f.correlationId \in pendingRequests
       THEN /\ timeouts' = timeouts \ {f.correlationId}
            /\ pendingRequests' = pendingRequests \ {f.correlationId}
            /\ settled' = [settled EXCEPT ![f.correlationId] =
                   IF f.status = "success" THEN [@ EXCEPT !.resolve = @ + 1]
                                           ELSE [@ EXCEPT !.reject = @ + 1]]
            /\ settledBy' = [settledBy EXCEPT ![f.correlationId] = f.connection]
       ELSE UNCHANGED <<timeouts, pendingRequests, settled, settledBy>>
    /\ UNCHANGED <<clients, rateLimiter, nextCorrelation, decoding, sentTo>>
    /\ UNCHANGED outsideXC

InitXC ==
    /\ arrived = {}
    /\ sentTo = [k \in CorrelationIds |-> "none"]
    /\ settledBy = [k \in CorrelationIds |-> "none"]

NextXC ==
    \/ \E c \in ClientIds : AddClient(c)
    \/ \E c \in ClientIds : WindowElapses(c)
    \/ \E c \in ClientIds : RequestSentTo(c)
    \/ \E k \in CorrelationIds : RequestTimeout(k)
    \/ \E c \in ClientIds, k \in CorrelationIds, status \in Status :
           ResponseArrivesOn(c, k, status)
    \/ \E f \in arrived : ResponseDispatched(f)

(***************************************************************************)
(* MessageQueue (part_017)                                                 *)
(* The store is reached over one connection (this.publisher): a command    *)
(* takes effect in the order it is sent, and the replies come back, and    *)
(* resume their callers, in that order. A command's effect and its result  *)
(* are therefore fixed when it is sent; the pipeline holds the callers that *)
(* have not been resumed yet. getQueueSize, three llen commands in the     *)
(* code, reads the three lists at once here, when it is called.            *)
(* Message ids are fresh (generateId) and only key this.processing; the    *)
(* payload is opaque. A message is therefore its priority, retryCount and  *)
(* maxRetries, and the key set of this.processing is the `timed` mark on   *)
(* the message objects whose listener is awaited.                          *)
(***************************************************************************)
Priorities_low_first == <<"low", "medium", "high">>

\* Object.values(MessagePriority): the order in which dequeue visits the lists
Priorities == <<"high", "medium", "low">>

PrioritySet == {"high", "medium", "low"}

\* a QueueMessage (lines 11-18), here the reply to rpop on an empty list
NoMsg == [priority |-> "none", retryCount |-> 0, maxRetries |-> 0]

\* the priorities that come before p in the strict order high, medium, low
Higher(p) == CASE p = "high" -> {}
               [] p = "medium" -> {"high"}
               [] OTHER -> {"high", "medium"}

\* this.processing.size
processingSize ==
    BagCardinality([l \in {x \in BagToSet(listening) : x.timed} |-> listening[l]])

\* the messages in the lists
Queued == Len(queue["high"]) + Len(queue["medium"]) + Len(queue["low"])

\* the messages anywhere between an enqueue call and the end of their listener
Messages ==
    Queued + Cardinality({i \in DOMAIN pipeline : pipeline[i].msg # NoMsg})
           + BagCardinality(listening) + BagCardinality(delays)

\* getQueueSize (lines 254-261), sent for the caller, which is resumed with the total
getQueueSize(pipe, caller, m) ==
    Append(pipe, [op |-> "llen", n |-> 0, size |-> Queued, for |-> caller, msg |-> m,
                  empties |-> {}, bypassed |-> FALSE])

\* dequeue sends rpop for the n-th list (line 154): the head leaves the list now
rpopSend(n, pipe, empties) ==
    LET p == Priorities[n] IN
    /\ pipeline' = Append(pipe,
           [op |-> "rpop", n |-> n, size |-> 0, for |-> "loop",
            msg |-> IF queue[p] = <<>> THEN NoMsg ELSE Head(queue[p]),
            empties |-> empties,
            bypassed |-> (queue[p] # <<>> /\ \E h \in Higher(p) : queue[h] # <<>>)])
    /\ queue' = IF queue[p] = <<>> THEN queue ELSE [queue EXCEPT ![p] = Tail(@)]

\* one pass through the head of the while loop of startProcessing (lines 169-178):
\* leave when not processing, sleep when at the concurrency limit, else call dequeue
loopIteration(active, inFlight, pipe, asleep) ==
    IF ~active
    THEN queue' = queue /\ pipeline' = pipe /\ sleepers' = asleep
    ELSE IF inFlight >= Concurrency
    THEN queue' = queue /\ pipeline' = pipe /\ sleepers' = asleep + 1
    ELSE rpopSend(1, pipe, {}) /\ sleepers' = asleep

\* the message object after handleMessageError (line 244)
countRetry(m) == IF m.retryCount < m.maxRetries THEN [m EXCEPT !.retryCount = @ + 1] ELSE m

\* handleMessageError (lines 237-252) for the message object m: under the retry
\* limit, count the retry on the object and wait retryDelay; else emit failed
handleMessageError(m) ==
    /\ delays' = IF m.retryCount < m.maxRetries
                 THEN delays (+) SetToBag({countRetry(m)})
                 ELSE delays
    /\ failedEmitted' = (m.retryCount >= m.maxRetries)

\* a producer calls enqueue(data, priority) with the default maxRetries
Produce(p) ==
    /\ UNCHANGED outsideMQ
    /\ Messages < MaxMessages
    /\ Len(pipeline) < MaxInFlight
    /\ pipeline' = getQueueSize(pipeline, "enqueue",
           [priority |-> p, retryCount |-> 0, maxRetries |-> MaxRetries])
    /\ failedEmitted' = FALSE
    /\ UNCHANGED <<queue, isProcessing, backpressureActive, listening, delays,
                   sleepers, bpStarts, firstStart>>

\* a producer calls enqueue(data, priority, 0): the message is never retried
ProduceNoRetry(p) ==
    /\ UNCHANGED outsideMQ
    /\ Messages < MaxMessages
    /\ Len(pipeline) < MaxInFlight
    /\ pipeline' = getQueueSize(pipeline, "enqueue",
           [priority |-> p, retryCount |-> 0, maxRetries |-> 0])
    /\ failedEmitted' = FALSE
    /\ UNCHANGED <<queue, isProcessing, backpressureActive, listening, delays,
                   sleepers, bpStarts, firstStart>>

\* enqueue resumed with the queue size, the queue full (lines 127-129)
enqueueFull ==
    /\ UNCHANGED outsideMQ
    /\ pipeline # <<>>
    /\ Head(pipeline).op = "llen"
    /\ Head(pipeline).for \in {"enqueue", "retry"}
    /\ Head(pipeline).size >= MaxQueueSize
    /\ pipeline' = Tail(pipeline)
    /\ failedEmitted' = FALSE
    /\ UNCHANGED <<queue, isProcessing, backpressureActive, listening, delays,
                   sleepers, bpStarts, firstStart>>

\* enqueue resumed with the queue size, the queue not full (lines 130-147):
\* backpressure is signalled at the threshold, then a new message with
\* retryCount 0 is pushed on the list of its priority
enqueue ==
    /\ UNCHANGED outsideMQ
    /\ pipeline # <<>>
    /\ Head(pipeline).op = "llen"
    /\ Head(pipeline).for \in {"enqueue", "retry"}
    /\ Head(pipeline).size < MaxQueueSize
    /\ IF Head(pipeline).size >= BackpressureThreshold
       THEN backpressureActive' = TRUE /\ bpStarts' = IF bpStarts < 2 THEN bpStarts + 1 ELSE 2
       ELSE UNCHANGED <<backpressureActive, bpStarts>>
    /\ queue' = [queue EXCEPT ![Head(pipeline).msg.priority] =
                    Append(@, [priority |-> Head(pipeline).msg.priority, retryCount |-> 0,
                               maxRetries |-> Head(pipeline).msg.maxRetries])]
    /\ pipeline' = Tail(pipeline)
    /\ failedEmitted' = FALSE
    /\ UNCHANGED <<isProcessing, listening, delays, sleepers, firstStart>>

\* processMessage resumed with the queue size after its listeners succeeded
\* (lines 218-223): backpressure is released below the threshold
releaseBackpressure ==
    /\ UNCHANGED outsideMQ
    /\ pipeline # <<>>
    /\ Head(pipeline).op = "llen"
    /\ Head(pipeline).for = "release"
    /\ IF backpressureActive /\ Head(pipeline).size < BackpressureThreshold
       THEN backpressureActive' = FALSE /\ bpStarts' = 0
       ELSE UNCHANGED <<backpressureActive, bpStarts>>
    /\ pipeline' = Tail(pipeline)
    /\ failedEmitted' = FALSE
    /\ UNCHANGED <<queue, isProcessing, listening, delays, sleepers, firstStart>>

\* dequeue resumed with an empty reply (lines 154-162): the next list is tried,
\* and after the last one the loop sleeps (line 180)
dequeueEmpty ==
    /\ UNCHANGED outsideMQ
    /\ pipeline # <<>>
    /\ Head(pipeline).op = "rpop"
    /\ Head(pipeline).msg = NoMsg
    /\ IF Head(pipeline).n < Len(Priorities)
       THEN /\ rpopSend(Head(pipeline).n + 1, Tail(pipeline),
                        Head(pipeline).empties \cup {Priorities[Head(pipeline).n]})
            /\ UNCHANGED sleepers
       ELSE /\ pipeline' = Tail(pipeline)
            /\ sleepers' = sleepers + 1
            /\ UNCHANGED queue
    /\ failedEmitted' = FALSE
    /\ UNCHANGED <<isProcessing, backpressureActive, listening, delays, bpStarts, firstStart>>

\* dequeue resumed with a message (lines 156-159), which the loop hands to
\* processMessage (line 184; lines 193-206: the timer is armed and the first
\* listener called), and the loop goes round
processMessage ==
    /\ UNCHANGED outsideMQ
    /\ pipeline # <<>>
    /\ Head(pipeline).op = "rpop"
    /\ Head(pipeline).msg # NoMsg
    /\ listening' = listening (+) SetToBag({[msg |-> Head(pipeline).msg, timed |-> TRUE]})
    /\ firstStart' = IF firstStart = "pending" THEN "done" ELSE firstStart
    /\ loopIteration(isProcessing, processingSize + 1, Tail(pipeline), sleepers)
    /\ failedEmitted' = FALSE
    /\ UNCHANGED <<isProcessing, backpressureActive, delays, bpStarts>>

\* the poll delay of a sleeping loop ends (lines 174-175, 180-181)
LoopWakes ==
    /\ UNCHANGED outsideMQ
    /\ sleepers > 0
    /\ processingSize < Concurrency => Len(pipeline) < MaxInFlight
    /\ loopIteration(isProcessing, processingSize, pipeline, sleepers - 1)
    /\ failedEmitted' = FALSE
    /\ UNCHANGED <<isProcessing, backpressureActive, listening, delays, bpStarts, firstStart>>

\* the startProcessing calls that have not returned: asleep or awaiting dequeue
Loops == sleepers + Cardinality({i \in DOMAIN pipeline : pipeline[i].op = "rpop"})

\* pause() (lines 263-266): a loop leaves when it next tests the flag
pause ==
    /\ UNCHANGED outsideMQ
    /\ isProcessing' = FALSE
    /\ failedEmitted' = FALSE
    /\ UNCHANGED <<queue, pipeline, backpressureActive, listening, delays, sleepers,
                   bpStarts, firstStart>>

\* resume() while not processing: startProcessing sets the flag and enters the loop
resume ==
    /\ UNCHANGED outsideMQ
    /\ ~isProcessing
    /\ Len(pipeline) < MaxInFlight
    /\ Loops < MaxLoops
    /\ isProcessing' = TRUE
    /\ loopIteration(TRUE, processingSize, pipeline, sleepers)
    /\ firstStart' = IF firstStart # "unset" THEN firstStart
                     ELSE IF queue["high"] # <<>> THEN "pending" ELSE "done"
    /\ failedEmitted' = FALSE
    /\ UNCHANGED <<backpressureActive, listening, delays, bpStarts>>

\* the listener awaited at line 206 resolves: the timer is cleared and
\* getQueueSize called (lines 210-218)
ListenerResolves(l) ==
    /\ UNCHANGED outsideMQ
    /\ BagIn(l, listening)
    /\ Len(pipeline) < MaxInFlight
    /\ listening' = listening (-) SetToBag({l})
    /\ pipeline' = getQueueSize(pipeline, "release", NoMsg)
    /\ failedEmitted' = FALSE
    /\ UNCHANGED <<queue, isProcessing, backpressureActive, delays, sleepers,
                   bpStarts, firstStart>>

\* the listener awaited at line 206 rejects or throws (lines 224-228)
ListenerRejects(l) ==
    /\ UNCHANGED outsideMQ
    /\ BagIn(l, listening)
    /\ listening' = listening (-) SetToBag({l})
    /\ handleMessageError(l.msg)
    /\ UNCHANGED <<queue, pipeline, isProcessing, backpressureActive, sleepers,
                   bpStarts, firstStart>>

\* the processing timer of a message fires (lines 194-196, 231-235); its
\* listener is still running, on the same message object
handleMessageTimeout(l) ==
    /\ UNCHANGED outsideMQ
    /\ BagIn(l, listening)
    /\ l.timed
    /\ l.msg.retryCount < l.msg.maxRetries => Messages < MaxMessages
    /\ listening' = (listening (-) SetToBag({l}))
                        (+) SetToBag({[msg |-> countRetry(l.msg), timed |-> FALSE]})
    /\ handleMessageError(l.msg)
    /\ UNCHANGED <<queue, pipeline, isProcessing, backpressureActive, sleepers,
                   bpStarts, firstStart>>

\* retryDelay has passed (lines 246-247): enqueue(data, priority, maxRetries),
\* called from the frame that holds the message object m
RetryDelayEnds(m) ==
    /\ UNCHANGED outsideMQ
    /\ BagIn(m, delays)
    /\ Len(pipeline) < MaxInFlight
    /\ delays' = delays (-) SetToBag({m})
    /\ pipeline' = getQueueSize(pipeline, "retry", m)
    /\ failedEmitted' = FALSE
    /\ UNCHANGED <<queue, isProcessing, backpressureActive, listening, sleepers,
                   bpStarts, firstStart>>

InitMQ ==
    /\ queue = [p \in PrioritySet |-> <<>>]
    /\ pipeline = <<>>
    /\ isProcessing = FALSE
    /\ backpressureActive = FALSE
    /\ listening = EmptyBag
    /\ delays = EmptyBag
    /\ sleepers = 0
    /\ bpStarts = 0
    /\ firstStart = "unset"
    /\ failedEmitted = FALSE

NextMQ ==
    \/ \E p \in PrioritySet : Produce(p)
    \/ enqueueFull
    \/ enqueue
    \/ releaseBackpressure
    \/ dequeueEmpty
    \/ processMessage
    \/ LoopWakes
    \/ resume
    \/ \E l \in BagToSet(listening) : ListenerResolves(l)
    \/ \E l \in BagToSet(listening) : ListenerRejects(l)
    \/ \E l \in BagToSet(listening) : handleMessageTimeout(l)
    \/ \E m \in BagToSet(delays) : RetryDelayEnds(m)

(***************************************************************************)
(* MessageQueue (part_017): enqueue, dequeue and the retry path with the   *)
(* messages told apart by payload and attempt. One consumer loop runs; a   *)
(* command on this.publisher takes effect when it is sent and its caller   *)
(* is resumed in the order of the commands.                                *)
(***************************************************************************)
NoToken == [data |-> 0, attempt |-> 0, priority |-> "none"]

Stored == Len(store["high"]) + Len(store["medium"]) + Len(store["low"])

lpush_at_right(list, m) == Append(list, m)

\* LPUSH (line 144): the message goes to the left end of the list
lpush(list, m) == <<m>> \o list

\* RPOP (line 154): the reply, the element at the right end
rpopReply(list) == IF list = <<>> THEN NoToken ELSE list[Len(list)]

\* RPOP (line 154): the list without its right end
rpopRest(list) == IF list = <<>> THEN list ELSE SubSeq(list, 1, Len(list) - 1)

\* enqueue up to the await of getQueueSize (line 126), called for message m
enqueueCall(w, m) == Append(w, [op |-> "llen", n |-> 0, size |-> Stored, msg |-> m])

\* dequeue sends rpop for the n-th list (line 154)
dequeueSend(w, n) ==
    /\ wire' = Append(w, [op |-> "rpop", n |-> n, size |-> 0,
                          msg |-> rpopReply(store[Priorities[n]])])
    /\ store' = [store EXCEPT ![Priorities[n]] = rpopRest(@)]

\* a producer calls enqueue(data, p) (lines 121-126)
FifoEnqueueCall(p) ==
    /\ nextData <= MaxFifoData
    /\ Len(wire) < MaxInFlight
    /\ wire' = enqueueCall(wire, [data |-> nextData, attempt |-> 0, priority |-> p])
    /\ order' = [order EXCEPT ![p] =
                    Append(@, [data |-> nextData, attempt |-> 0, priority |-> p])]
    /\ nextData' = nextData + 1
    /\ UNCHANGED <<store, handling, waiting, loop, taken>>
    /\ UNCHANGED outsideFF

\* enqueue resumed with the queue size (lines 127-147): it throws when the
\* queue is full, else pushes the new message
FifoEnqueueResumes ==
    /\ wire # <<>>
    /\ Head(wire).op = "llen"
    /\ LET m == Head(wire).msg IN
       IF Head(wire).size >= MaxQueueSize
       THEN /\ order' = [order EXCEPT ![m.priority] = SelectSeq(@, LAMBDA t : t # m)]
            /\ UNCHANGED store
       ELSE /\ store' = [store EXCEPT ![m.priority] = lpush(@, m)]
            /\ UNCHANGED order
    /\ wire' = Tail(wire)
    /\ UNCHANGED <<handling, waiting, loop, nextData, taken>>
    /\ UNCHANGED outsideFF

\* the poll delay ends with a free processing slot (lines 171-178)
FifoLoopWakes ==
    /\ loop = "asleep"
    /\ Cardinality(handling) < Concurrency
    /\ Len(wire) < MaxInFlight
    /\ dequeueSend(wire, 1)
    /\ loop' = "dequeue"
    /\ UNCHANGED <<handling, waiting, nextData, order, taken>>
    /\ UNCHANGED outsideFF

\* dequeue resumed with the reply to rpop (lines 154-162, 178-184): an empty
\* reply sends it to the next list or the loop to sleep; a message goes to
\* processMessage and the loop goes round
FifoDequeueResumes ==
    /\ wire # <<>>
    /\ Head(wire).op = "rpop"
    /\ LET m == Head(wire).msg
           n == Head(wire).n
       IN  IF m = NoToken
           THEN /\ IF n < Len(Priorities)
                   THEN dequeueSend(Tail(wire), n + 1) /\ UNCHANGED loop
                   ELSE wire' = Tail(wire) /\ loop' = "asleep" /\ UNCHANGED store
                /\ UNCHANGED <<handling, taken>>
           ELSE /\ taken' = [taken EXCEPT ![m.priority] = Append(@, m)]
                /\ handling' = handling \cup {m}
                /\ IF Cardinality(handling \cup {m}) >= Concurrency
                   THEN wire' = Tail(wire) /\ loop' = "asleep" /\ UNCHANGED store
                   ELSE dequeueSend(Tail(wire), 1) /\ UNCHANGED loop
    /\ UNCHANGED <<waiting, nextData, order>>
    /\ UNCHANGED outsideFF

\* the listeners of a message have finished (lines 210-215)
FifoListenerResolves(m) ==
    /\ m \in handling
    /\ handling' = handling \ {m}
    /\ UNCHANGED <<store, wire, waiting, loop, nextData, order, taken>>
    /\ UNCHANGED outsideFF

\* a listener throws (lines 224-228, 237-246): the retry is scheduled
FifoListenerRejects(m) ==
    /\ m \in handling
    /\ m.attempt < MaxFifoAttempts
    /\ handling' = handling \ {m}
    /\ waiting' = waiting \cup {m}
    /\ UNCHANGED <<store, wire, loop, nextData, order, taken>>
    /\ UNCHANGED outsideFF

\* retryDelay has passed (line 247): enqueue(message.data, message.priority, ...)
FifoRetryDelayEnds(m) ==
    /\ m \in waiting
    /\ Len(wire) < MaxInFlight
    /\ waiting' = waiting \ {m}
    /\ wire' = enqueueCall(wire, [m EXCEPT !.attempt = @ + 1])
    /\ order' = [order EXCEPT ![m.priority] = Append(@, [m EXCEPT !.attempt = @ + 1])]
    /\ UNCHANGED <<store, handling, loop, nextData, taken>>
    /\ UNCHANGED outsideFF

InitFF ==
    /\ store = [p \in PrioritySet |-> <<>>]
    /\ wire = <<>>
    /\ handling = {}
    /\ waiting = {}
    /\ loop = "asleep"
    /\ nextData = 1
    /\ order = [p \in PrioritySet |-> <<>>]
    /\ taken = [p \in PrioritySet |-> <<>>]

NextFF ==
    \/ \E p \in PrioritySet : FifoEnqueueCall(p)
    \/ FifoEnqueueResumes
    \/ FifoLoopWakes
    \/ FifoDequeueResumes
    \/ \E m \in handling : FifoListenerResolves(m)
    \/ \E m \in handling : FifoListenerRejects(m)
    \/ \E m \in waiting : FifoRetryDelayEnds(m)

(***************************************************************************)
(* CircuitBreaker (part_018) with the events setState emits                *)
(***************************************************************************)
\* newState.toLowerCase() (line 144)
toLowerCase(s) == CASE s = "CLOSED" -> "closed"
                    [] s = "OPEN" -> "open"
                    [] s = "HALF_OPEN" -> "half_open"

\* setState (lines 140-145)
setState(newState) ==
    /\ state' = newState
    /\ emitted' = <<[name |-> toLowerCase(newState), from |-> state, to |-> newState]>>

opens_at_threshold_in_any_state ==
    failures + 1 >= FailureThreshold \/ state = "HALF_OPEN"

\* the test of onFailure (lines 131-134), after the increment of line 128
opens ==
    (state = "CLOSED" /\ failures + 1 >= FailureThreshold) \/ state = "HALF_OPEN"

\* onFailure (lines 127-138)
emittingOnFailure ==
    /\ failures' = failures + 1
    /\ IF opens
       THEN setState("OPEN") /\ scheduleReset
       ELSE UNCHANGED <<state, resetTimer, cancelled>> /\ emitted' = <<>>

\* onSuccess (lines 118-125)
emittingOnSuccess ==
    IF state = "HALF_OPEN"
    THEN setState("CLOSED") /\ failures' = 0 /\ halfOpenCalls' = 0
    ELSE UNCHANGED <<state, failures, halfOpenCalls>> /\ emitted' = <<>>

\* execute refused at line 90 or line 95: the catch block runs (lines 104-109)
EmittingExecuteRefused ==
    /\ state = "OPEN" \/ (state = "HALF_OPEN" /\ halfOpenCalls >= HalfOpenMaxCalls)
    /\ failures < MaxFailures
    /\ releaseSlot
    /\ emittingOnFailure
    /\ consecutive' = IF consecutive < MaxFailures THEN consecutive + 1 ELSE consecutive
    /\ lastCall' = IF state = "OPEN" THEN "rejected_open" ELSE "rejected_capacity"
    /\ UNCHANGED running
    /\ UNCHANGED outsideEV

\* execute up to the await of operation() (lines 88-100)
EmittingExecuteAdmit ==
    /\ Running < MaxRunning
    /\ \/ state = "CLOSED" /\ UNCHANGED halfOpenCalls
       \/ /\ state = "HALF_OPEN"
          /\ halfOpenCalls < HalfOpenMaxCalls
          /\ halfOpenCalls' = halfOpenCalls + 1
    /\ running' = [running EXCEPT ![state] = @ + 1]
    /\ emitted' = <<>>
    /\ lastCall' = "admitted"
    /\ UNCHANGED <<state, failures, resetTimer, consecutive, cancelled>>
    /\ UNCHANGED outsideEV

\* the awaited operation resolves (lines 101-103)
EmittingOperationSucceeds(admitted) ==
    /\ running[admitted] > 0
    /\ running' = [running EXCEPT ![admitted] = @ - 1]
    /\ emittingOnSuccess
    /\ consecutive' = 0
    /\ lastCall' = IF admitted = "HALF_OPEN" THEN "trial_succeeded" ELSE "succeeded"
    /\ UNCHANGED <<resetTimer, cancelled>>
    /\ UNCHANGED outsideEV

\* the awaited operation rejects (lines 104-109)
EmittingOperationFails(admitted) ==
    /\ running[admitted] > 0
    /\ failures < MaxFailures
    /\ running' = [running EXCEPT ![admitted] = @ - 1]
    /\ releaseSlot
    /\ emittingOnFailure
    /\ consecutive' = IF consecutive < MaxFailures THEN consecutive + 1 ELSE consecutive
    /\ lastCall' = IF admitted = "HALF_OPEN" THEN "trial_failed" ELSE "failed"
    /\ UNCHANGED outsideEV

\* the callback armed by scheduleReset (lines 152-157)
EmittingResetTimerFires ==
    /\ resetTimer
    /\ resetTimer' = FALSE
    /\ IF state = "OPEN"
       THEN setState("HALF_OPEN") /\ halfOpenCalls' = 0
       ELSE UNCHANGED <<state, halfOpenCalls>> /\ emitted' = <<>>
    /\ lastCall' = "timer"
    /\ UNCHANGED <<failures, running, consecutive, cancelled>>
    /\ UNCHANGED outsideEV

InitEV == emitted = <<>>

NextEV ==
    \/ EmittingExecuteRefused
    \/ EmittingExecuteAdmit
    \/ \E admitted \in {"CLOSED", "HALF_OPEN"} : EmittingOperationSucceeds(admitted)
    \/ \E admitted \in {"CLOSED", "HALF_OPEN"} : EmittingOperationFails(admitted)
    \/ EmittingResetTimerFires

(***************************************************************************)
(* RateLimiter (part_015) on a clock: windowStart is an instant, and the   *)
(* window is reset by the first call made windowMs or more after it.       *)
(***************************************************************************)
LimiterKeys == {"k1", "k2"}

Instants == 0..MaxClock

windowExpired_after_one_tick(st) == clock - st.windowStart >= 1

\* the test of line 33
windowExpired(st) == clock - st.windowStart >= WindowMs

\* the state of the key after lines 25-36
currentWindow(st) ==
    IF ~st.present THEN [present |-> TRUE, requests |-> 0, windowStart |-> clock]
    ELSE IF windowExpired(st) THEN [st EXCEPT !.requests = 0, !.windowStart = clock]
    ELSE st

\* isRateLimited(k) (lines 23-46)
TimedIsRateLimited(k) ==
    /\ limiter' = [limiter EXCEPT ![k] =
           IF currentWindow(@).requests >= RateLimitMaxRequests
           THEN currentWindow(@)
           ELSE [currentWindow(@) EXCEPT !.requests = @ + 1]]
    /\ verdicts' = [verdicts EXCEPT ![k] =
           IF currentWindow(limiter[k]).requests >= RateLimitMaxRequests
           THEN "limited" ELSE "passed"]
    /\ passed' = [passed EXCEPT ![k][clock] =
           IF currentWindow(limiter[k]).requests >= RateLimitMaxRequests THEN @ ELSE @ + 1]
    /\ UNCHANGED clock
    /\ UNCHANGED outsideSW

\* time passes
ClockTicks ==
    /\ clock < MaxClock
    /\ clock' = clock + 1
    /\ UNCHANGED <<limiter, passed, verdicts>>
    /\ UNCHANGED outsideSW

InitSW ==
    /\ clock = 0
    /\ limiter = [k \in LimiterKeys |-> [present |-> FALSE, requests |-> 0, windowStart |-> 0]]
    /\ passed = [k \in LimiterKeys |-> [t \in Instants |-> 0]]
    /\ verdicts = [k \in LimiterKeys |-> "none"]

NextSW ==
    \/ \E k \in LimiterKeys : TimedIsRateLimited(k)
    \/ ClockTicks

(***************************************************************************)
(* ReconnectingWebSocket (src/websocket/ReconnectingWebSocket.ts). A       *)
(* socket that fails delivers its error event and then its close event.    *)
(***************************************************************************)
\* scheduleReconnect (lines 84-100): the timer is armed and stored without a
\* look at the one stored before
scheduleReconnect ==
    IF retries >= ReconnectMaxRetries
    THEN UNCHANGED <<reconnectTimeout, strayTimers>>
    ELSE /\ reconnectTimeout' = "armed"
         /\ strayTimers' = IF reconnectTimeout = "armed" THEN strayTimers + 1
                           ELSE strayTimers

\* scheduleReconnect is followed
canSchedule == reconnectTimeout = "armed" => strayTimers < MaxStrayTimers

\* ws.onopen (lines 49-54)
SocketOpens ==
    /\ wsState = "connecting"
    /\ wsState' = "open"
    /\ isConnecting' = FALSE
    /\ retries' = 0
    /\ UNCHANGED <<reconnectTimeout, strayTimers, closeCalled, connectsAfterClose>>
    /\ UNCHANGED outsideRW

\* ws.onerror (lines 60-62) and handleError (lines 78-82)
SocketErrors ==
    /\ wsState \in {"connecting", "open"}
    /\ canSchedule
    /\ wsState' = "errored"
    /\ isConnecting' = FALSE
    /\ scheduleReconnect
    /\ UNCHANGED <<retries, closeCalled, connectsAfterClose>>
    /\ UNCHANGED outsideRW

\* ws.onclose (lines 56-58) and handleClose (lines 69-76); the close that
\* follows an error is not clean
SocketClosed(wasClean) ==
    /\ wsState \in {"open", "errored", "closing"}
    /\ wsState = "errored" => ~wasClean
    /\ canSchedule
    /\ wsState' = "closed"
    /\ isConnecting' = FALSE
    /\ IF ~wasClean THEN scheduleReconnect
       ELSE UNCHANGED <<reconnectTimeout, strayTimers>>
    /\ UNCHANGED <<retries, closeCalled, connectsAfterClose>>
    /\ UNCHANGED outsideRW

\* the callback of a reconnect timer (lines 95-99) with connect (lines 34-44);
\* held: the timer is the one this.reconnectTimeout refers to
ReconnectTimerFires(held) ==
    /\ wsState = "closed"
    /\ IF held
       THEN reconnectTimeout = "armed" /\ reconnectTimeout' = "fired"
                /\ UNCHANGED strayTimers
       ELSE strayTimers > 0 /\ strayTimers' = strayTimers - 1
                /\ UNCHANGED reconnectTimeout
    /\ closeCalled => connectsAfterClose < MaxConnectsAfterClose
    /\ retries' = retries + 1
    /\ IF isConnecting
       THEN UNCHANGED <<wsState, isConnecting, connectsAfterClose>>
       ELSE /\ isConnecting' = TRUE
            /\ wsState' = "connecting"
            /\ connectsAfterClose' = IF closeCalled THEN connectsAfterClose + 1
                                     ELSE connectsAfterClose
    /\ UNCHANGED closeCalled
    /\ UNCHANGED outsideRW

\* close() (lines 117-122)
SocketClose ==
    /\ reconnectTimeout' = IF reconnectTimeout = "armed" THEN "none" ELSE reconnectTimeout
    /\ wsState' = IF wsState \in {"connecting", "open"} THEN "closing" ELSE wsState
    /\ closeCalled' = TRUE
    /\ UNCHANGED <<isConnecting, retries, strayTimers, connectsAfterClose>>
    /\ UNCHANGED outsideRW

InitRW ==
    /\ wsState = "connecting"
    /\ isConnecting = TRUE
    /\ retries = 0
    /\ reconnectTimeout = "none"
    /\ strayTimers = 0
    /\ closeCalled = FALSE
    /\ connectsAfterClose = 0

NextRW ==
    \/ SocketOpens
    \/ SocketErrors
    \/ \E wasClean \in BOOLEAN : SocketClosed(wasClean)
    \/ \E held \in BOOLEAN : ReconnectTimerFires(held)
    \/ SocketClose

(***************************************************************************)
(* Specifications: one per component, the other components at rest         *)
(***************************************************************************)
Init == InitCB /\ InitWS /\ InitMQ /\ InitRQ /\ InitBC /\ InitRL /\ InitHB /\ InitML /\ InitFB /\ InitCL /\ InitLB /\ InitSM /\ InitCM /\ InitIP /\ InitXC /\ InitFF /\ InitEV /\ InitSW /\ InitRW

SpecCB == Init /\ [][NextCB]_vars

\* the reset timer is a timer of the event loop: once armed it fires unless cleared
SpecCBLive == Init /\ [][NextCB]_vars /\ WF_vars(ResetTimerFires)

SpecWS == Init /\ [][NextWS]_vars

SpecMQ == Init /\ [][NextMQ]_vars

SpecRQ == Init /\ [][NextRQ]_vars

SpecBC == Init /\ [][NextBC]_vars

SpecRL == Init /\ [][NextRL]_vars

SpecHB == Init /\ [][NextHB]_vars

SpecFB == Init /\ [][NextFB]_vars

SpecCL == Init /\ [][NextCL]_vars

SpecLB == Init /\ [][NextLB]_vars

SpecRW == Init /\ [][NextRW]_vars

SpecSW == Init /\ [][NextSW]_vars

SpecEV == Init /\ [][NextEV]_vars

SpecFF == Init /\ [][NextFF]_vars

SpecXC == Init /\ [][NextXC]_vars

SpecIP == Init /\ [][NextIP]_vars

SpecCM == Init /\ [][NextCM]_vars

SpecSM == Init /\ [][NextSM]_vars

\* the heartbeat timers of the live nodes fire, the bus delivers, time passes
SpecCLLive ==
    /\ SpecCL
    /\ \A n \in NodeIds : WF_vars(SendHeartbeat(n))
    /\ \A s \in NodeIds, r \in NodeIds : WF_vars(HandleHeartbeat(s, r))
    /\ \A r \in NodeIds, p \in NodeIds : WF_vars(EntryExpires(r, p))

SpecIN == Init /\ [][NextIN]_vars

SpecML == Init /\ [][NextML]_vars

\* decompress and compress settle, and a registered handler returns or throws
SpecRQLive ==
    /\ Init /\ [][NextRQ]_vars
    /\ \A r \in RequestIds :
          /\ WF_vars(DecompressDone(r))
          /\ WF_vars(HandlerResolves(r) \/ HandlerThrows(r))
          /\ WF_vars(CompressDone(r))

\* the queue with callers of pause()
NextMQPause == NextMQ \/ pause

\* producers that also pass maxRetries 0 to enqueue
NextMQNoRetry == NextMQ \/ \E p \in PrioritySet : ProduceNoRetry(p)

SpecMQNoRetry == Init /\ [][NextMQNoRetry]_vars

SpecMQPause == Init /\ [][NextMQPause]_vars

\* the timeout of a pending request is a timer of the event loop: it fires unless cleared
SpecWSLive == Init /\ [][NextWS]_vars /\ \A k \in CorrelationIds : WF_vars(RequestTimeout(k))

(***************************************************************************)
(* Claims about the CircuitBreaker                                         *)
(***************************************************************************)

\* C2: starting from CLOSED, once failureThreshold consecutive calls have failed
\* the breaker is not CLOSED any more (it opened), and an execute call made while
\* OPEN completes without invoking the operation: no operation starts in a step
\* taken from OPEN, and the rejected call leaves the set of running operations alone.
C2_OpensAtThreshold ==
    [][ /\ (state' = "CLOSED" => consecutive' < FailureThreshold)
        /\ (state = "CLOSED" /\ consecutive' >= FailureThreshold => state' = "OPEN")
        /\ (state = "OPEN" => lastCall' # "admitted" /\ Running' <= Running)
        /\ (lastCall' = "rejected_open" => running' = running) ]_vars

\* C2 witness: the breaker opened on the failureThreshold-th consecutive failure
\* and has since rejected a call
C2_Witness ==
    /\ state = "OPEN"
    /\ lastCall = "rejected_open"
    /\ consecutive > FailureThreshold
    /\ failures = consecutive

\* C3 (as claimed): every successful execute leaves the failure counter at zero,
\* and a CLOSED breaker opens only on the failureThreshold-th consecutive failure
C3_SuccessResetsFailures ==
    [][ /\ (lastCall' \in {"succeeded", "trial_succeeded"} /\ state \in {"CLOSED", "HALF_OPEN"}
              => failures' = 0)
        /\ (state = "CLOSED" /\ state' = "OPEN" => consecutive' >= FailureThreshold) ]_vars

\* C4 (as claimed): a call rejected at HALF_OPEN capacity leaves the state, the
\* failure counter and the trial-slot counter unchanged
C4_CapacityRejectionNotCounted ==
    [][ lastCall' = "rejected_capacity"
          => state' = state /\ failures' = failures /\ halfOpenCalls' = halfOpenCalls ]_vars

\* C5 (as claimed): the operations running at the same time that were admitted
\* while HALF_OPEN never number more than halfOpenMaxCalls
C5_TrialsBounded == running["HALF_OPEN"] <= HalfOpenMaxCalls

\* C6: an OPEN breaker reaches HALF_OPEN by the reset timer alone unless stop()
\* cleared that timer, and an execute call made while OPEN changes neither the
\* state nor the timer
C6_OpenLeadsToHalfOpen ==
    /\ [](state = "OPEN" => <>(state = "HALF_OPEN" \/ cancelled))
    /\ [][ /\ (lastCall' = "rejected_open" => state' = "OPEN" /\ resetTimer' = resetTimer)
           /\ (state = "OPEN" /\ state' # "OPEN" => lastCall' = "timer" /\ state' = "HALF_OPEN")
           /\ (state' = "OPEN" /\ ~cancelled' => resetTimer') ]_vars

\* C6 witness: the timer has moved the breaker from OPEN to HALF_OPEN
C6_Witness == state = "HALF_OPEN" /\ lastCall = "timer" /\ ~cancelled

\* C7: in HALF_OPEN a trial whose operation succeeds closes the breaker with both
\* counters at zero, and a trial whose operation fails opens it and arms the reset timer
C7_TrialOutcome ==
    [][ /\ (state = "HALF_OPEN" /\ lastCall' = "trial_succeeded"
              => state' = "CLOSED" /\ failures' = 0 /\ halfOpenCalls' = 0)
        /\ (state = "HALF_OPEN" /\ lastCall' = "trial_failed"
              => state' = "OPEN" /\ resetTimer' /\ ~cancelled') ]_vars

\* C7 witness: a successful trial has closed a breaker that had counted failures
C7_Witness ==
    /\ state = "CLOSED"
    /\ lastCall = "trial_succeeded"
    /\ failures = 0
    /\ halfOpenCalls = 0
    /\ ~resetTimer

(***************************************************************************)
(* Claims about the WebSocketManager                                       *)
(***************************************************************************)
Outcomes(k) == settled[k].resolve + settled[k].reject + settled[k].timeout

\* C1: a registered request has its PendingRequest entry and its armed timeout
\* exactly as long as none of resolve, reject-by-response and reject-by-timeout
\* has happened; never two of them happen; and one of them does happen
C1_ExactlyOneOutcome ==
    /\ [](\A k \in CorrelationIds :
            /\ Outcomes(k) <= 1
            /\ (k \in pendingRequests) = (k < nextCorrelation /\ Outcomes(k) = 0)
            /\ (k \in timeouts) = (k \in pendingRequests))
    /\ \A k \in CorrelationIds : [](k \in pendingRequests => <>(Outcomes(k) = 1))

\* C1 witness: a request was rejected by its timeout while its response is still
\* on the way to handleResponse
C1_Witness ==
    \E k \in CorrelationIds :
        /\ settled[k].timeout = 1
        /\ k \notin pendingRequests
        /\ \E f \in decoding : f.correlationId = k

(***************************************************************************)
(* Claims about the MessageQueue                                           *)
(***************************************************************************)

\* C8: a message whose processing fails is re-enqueued with its retryCount
\* incremented by one: the message that the enqueue call of a retry pushes
\* carries the retryCount of the message object that failed (so that the
\* retries end after maxRetries, with one failed event).
C8_RetryCountCarried ==
    [][ (/\ pipeline # <<>>
         /\ Head(pipeline).for = "retry"
         /\ queue' # queue)
        => LET p == Head(pipeline).msg.priority IN
           /\ Len(queue'[p]) = Len(queue[p]) + 1
           /\ queue'[p][Len(queue'[p])].retryCount = Head(pipeline).msg.retryCount ]_vars

\* C9 as stated: whenever dequeue takes a message, it takes it from the
\* highest-priority list that is non-empty at that moment (no list of higher
\* priority holds a message when the message is popped).
C9_HighestNonEmpty ==
    \A i \in DOMAIN pipeline : pipeline[i].op = "rpop" => ~pipeline[i].bypassed

\* C9: whenever dequeue takes a message, every list of higher priority has been
\* asked before, in this dequeue call, and was empty when asked; and when a high
\* message is queued as the consumer loop starts (a low one or not, in whatever
\* order they were enqueued), the first listener invoked is the high message's.
C9_ScanInPriorityOrder ==
    /\ [](\A i \in DOMAIN pipeline :
             pipeline[i].op = "rpop" /\ pipeline[i].msg # NoMsg
                 => Higher(pipeline[i].msg.priority) \subseteq pipeline[i].empties)
    /\ [][ firstStart = "pending" /\ firstStart' = "done"
              => Head(pipeline).msg.priority = "high" ]_vars

\* the loop has started with a high and a low message queued, the low one
\* enqueued first, and dequeue has taken the high one
C9_Witness ==
    /\ firstStart = "pending"
    /\ queue["low"] # <<>>
    /\ pipeline # <<>>
    /\ Head(pipeline).op = "rpop"
    /\ Head(pipeline).msg.priority = "high"
    /\ Head(pipeline).empties = {}

\* C10: backpressure_start is emitted only when the flag goes from inactive to
\* active: no second backpressure_start before a backpressure_end.
C10_StartOnlyOnTransition == bpStarts <= 1

\* C11: the total number of queued messages never exceeds maxQueueSize, also
\* when enqueue calls of producers and of retries overlap.
C11_NeverOverMax == Queued <= MaxQueueSize

\* C12: at most `concurrency` dequeued messages are in flight: handed to their
\* listeners, with their processing timer armed in this.processing, and neither
\* finished nor timed out.
C12_InFlightBounded == processingSize <= Concurrency

\* C13: every failed attempt ends with the message back in its list or with a
\* failed event: when the enqueue call of a retry is resumed, it pushes the
\* message or failed is emitted.
C13_RequeuedOrFailed ==
    [][ (/\ pipeline # <<>>
         /\ Head(pipeline).for = "retry"
         /\ pipeline' = Tail(pipeline))
        => (Queued' = Queued + 1 \/ failedEmitted') ]_vars

(***************************************************************************)
(* Claims about inbound request frames                                     *)
(***************************************************************************)

\* C14: every request frame is answered by a response envelope carrying the
\* request's correlationId, also when the rate limiter refuses the request.
C14_ReplyCorrelated ==
    \A r \in RequestIds :
        requests[r].format = "valid" /\ requests[r].stage \in {"compress", "done"}
            => requests[r].reply.correlationId = r

\* the envelopes with correlationId r passed to socket c
Replies(c, r) == Cardinality({i \in DOMAIN outbox[c] : outbox[c][i].correlationId = r})

\* a schema-valid request frame that passed the rate limit
Admitted(r) == requests[r].format = "valid" /\ ~requests[r].limited

C16_ArrivalOrder ==
    /\ \A r1, r2 \in RequestIds :
          (/\ r1 < r2
           /\ requests[r1].client = requests[r2].client
           /\ requests[r2].stage = "handler")
          => requests[r1].stage = "done"
    /\ \A c \in ClientIds : \A i, j \in DOMAIN outbox[c] :
          (i < j /\ outbox[c][i].correlationId # 0 /\ outbox[c][j].correlationId # 0)
          => outbox[c][i].correlationId < outbox[c][j].correlationId

\* C17: a connection that has been removed has no entry in the connection
\* table and no state in the rate limiter, whatever frames and sendRequest
\* calls came before the removal, come after it, or are still being handled.
C17_RemovedLeavesNoState ==
    /\ \A c \in ClientIds : c \notin clients => rateLimiter[c] = NoWindow
    /\ [][\A c \in ClientIds : c \in clients /\ c \notin clients' =>
              rateLimiter'[c] = NoWindow]_vars

\* every connection has been removed while a request sent to one of them is
\* pending and a response frame from one of them is still being decoded
C17_Witness ==
    /\ clients = {}
    /\ pendingRequests # {}
    /\ decoding # {}

(***************************************************************************)
(* Claims about broadcast                                                  *)
(***************************************************************************)

\* what a broadcast call does when it sends: one notification, with the
\* call's event and with a payload that the receiver reads as given by
\* received(_), to every socket in the table that is OPEN and that the filter
\* accepts; nothing to any other socket; the table and the pending requests
\* are left alone
BroadcastDelivers(b, received(_)) ==
    /\ \A c \in ClientIds :
          IF c \in clients /\ c \notin closed /\ filterAccepts(broadcasts[b].filter, c)
          THEN /\ Len(notified'[c]) = Len(notified[c]) + 1
               /\ SubSeq(notified'[c], 1, Len(notified[c])) = notified[c]
               /\ LET n == notified'[c][Len(notified'[c])] IN
                    /\ n.type = "notification"
                    /\ n.event = broadcasts[b].event
                    /\ JSONparse(n.payload) = received(broadcasts[b].payload)
          ELSE notified'[c] = notified[c]
    /\ clients' = clients
    /\ pendingRequests' = pendingRequests

\* the broadcast call that sends in this step, if any
Sending(b) == broadcasts[b].stage = "compress" /\ broadcasts'[b].stage = "sent"

AsGiven(payload) == payload

AsJSON(payload) == IF payload = "NaN" THEN "null" ELSE payload

\* C18 as stated: the notification's payload equals the payload given to broadcast.
C18_PayloadEqualsInput ==
    [][\A b \in BroadcastIds : Sending(b) => BroadcastDelivers(b, AsGiven)]_vars

\* C18: broadcast sends one notification exactly once to every connection in
\* the table whose socket is OPEN at send time and that the filter accepts, and
\* nothing to any other; it leaves the table and the pending requests alone;
\* the event equals the input, and the payload is read back equal to the input
\* when JSON has a text for it (a NaN payload is read back as null).
C18_BroadcastDelivers ==
    /\ [][\A b \in BroadcastIds : Sending(b) => BroadcastDelivers(b, AsJSON)]_vars
    /\ [](\A c \in ClientIds : \A i, j \in DOMAIN notified[c] :
             notified[c][i].correlationId = notified[c][j].correlationId => i = j)

\* a filtered broadcast has reached the OPEN socket c1 and not c2; a second,
\* unfiltered one has been sent while c2, still in the table, was not OPEN
C18_Witness ==
    /\ clients = {"c1", "c2"}
    /\ "c2" \in closed
    /\ Len(notified["c1"]) = 2
    /\ notified["c2"] = <<>>
    /\ broadcasts[1].filter = "c1only"
    /\ broadcasts[2].filter = "none"
    /\ broadcasts[2].stage = "sent"

(***************************************************************************)
(* Claims about the RateLimiter                                            *)
(***************************************************************************)

\* C19: within one window of a key the first maxRequests calls return false and
\* every later call returns true and leaves the count alone; a call made when
\* windowMs has passed since the window's start begins a new window and returns
\* false; the count never exceeds maxRequests; a call changes no other key.
C19_WindowLimit ==
    /\ [](\A k \in ClientIds :
            /\ rateLimiter[k].requests <= RateLimitMaxRequests
            /\ windowCalls[k] > 0 =>
                  /\ lastResult[k] = (windowCalls[k] > RateLimitMaxRequests)
                  /\ rateLimiter[k].requests =
                        IF windowCalls[k] > RateLimitMaxRequests
                        THEN RateLimitMaxRequests ELSE windowCalls[k])
    /\ [][\A k \in ClientIds :
            /\ (windowCalls'[k] # windowCalls[k] /\ windowCalls'[k] > 0) =>
                  /\ \A other \in ClientIds \ {k} : rateLimiter'[other] = rateLimiter[other]
                  /\ (rateLimiter[k].present /\ rateLimiter[k].elapsed) =>
                        (windowCalls'[k] = 1 /\ ~lastResult'[k])
                  /\ lastResult'[k] => rateLimiter'[k].requests = rateLimiter[k].requests
          ]_vars

\* a key was refused in one window and, windowMs later, is admitted again,
\* while the other key is being refused
C19_Witness ==
    /\ windowCalls["c1"] = 1
    /\ ~lastResult["c1"]
    /\ rateLimiter["c1"].requests = 1
    /\ windowCalls["c2"] > RateLimitMaxRequests
    /\ lastResult["c2"]

\* C20: the timeout callback is called for a connection only after pong timeouts
\* fired that no pong had answered: a connection that answers every ping before
\* the pong timeout of that ping is never reported.
C20_AnsweringNeverReported ==
    \A c \in ClientIds : reported[c] => unansweredFired[c]

\* C21: when HeartbeatMonitor.stop() returns, no pong timeout armed so far for
\* any socket is still armed, whatever the ping interval and the pong timeout.
C21_StopLeavesNoTimer ==
    [][HeartbeatStop => \A c \in ClientIds : armedTimers(heartbeat'[c]) = 0]_vars

\* no message is queued, in flight or waiting for a retry, and no caller waits
\* for the queue size
C22_Drained ==
    /\ Messages = 0
    /\ \A i \in DOMAIN pipeline : pipeline[i].op # "llen"

\* C22: once the messages that held the queue at the backpressure threshold have
\* all ended, processed or failed, and the queue is empty, the backpressure flag
\* is off.
C22_ReleasedWhenDrained ==
    C22_Drained => ~backpressureActive

\* C23: when a processing attempt of a message has ended, every listener that
\* was registered for 'message' when it started has been invoked with the
\* message, whether or not another listener failed.
C23_EveryListenerInvoked ==
    \A a \in AttemptIds :
        attempts[a].outcome \in {"processed", "error"}
            => attempts[a].invoked = 1..attempts[a].listeners

\* C24: a message that was taken from the store before pause() and whose
\* processing goes on while the queue is paused still ends as processed, retried
\* or failed: while paused, no retry is refused by enqueue and dropped.
C24_InFlightEndsWhilePaused ==
    [][~isProcessing => ~(enqueueFull /\ Head(pipeline).for = "retry")]_vars

(***************************************************************************)
(* Claims about inbound response and notification frames                   *)
(***************************************************************************)

\* C25 as stated: a notification frame, and a response frame whose correlationId
\* was never given to a request, is never answered with an outbound frame.
C25_NeverAnswered ==
    \A r \in RequestIds :
        (\/ requests[r].type = "notification"
         \/ requests[r].type = "response" /\ requests[r].correlationId >= nextCorrelation)
            => requests[r].reply = NoReply

\* C25: a response or notification frame that passed the rate-limit check is
\* never answered; dispatching a notification, or a response whose correlationId
\* has no PendingRequest, ends the frame with the pending-request table, the
\* timeouts, the settled promises and the sockets as they were; and no request
\* is settled twice. A frame refused by the rate limiter is answered with the
\* rate-limit error.
C25_NoEffectOnceAdmitted ==
    /\ [](\A r \in RequestIds :
            requests[r].type \in {"response", "notification"} =>
                /\ ~requests[r].limited => requests[r].reply = NoReply
                /\ requests[r].limited => requests[r].reply.payload = "Rate limit exceeded")
    /\ [](\A k \in CorrelationIds : Outcomes(k) <= 1)
    /\ [][\A r \in RequestIds :
            (/\ requests[r].stage = "decode"
             /\ requests'[r].stage # "decode"
             /\ \/ requests[r].type = "notification"
                \/ requests[r].correlationId \notin pendingRequests)
            => /\ requests'[r].stage = "done"
               /\ UNCHANGED <<pendingRequests, timeouts, settled, outbox>>]_vars

\* C25 witness: a response that passed the rate-limit check was dispatched after
\* its request had timed out
C25_Witness ==
    \E r \in RequestIds :
          /\ requests[r].type = "response"
          /\ requests[r].stage = "done"
          /\ ~requests[r].limited
          /\ settled[requests[r].correlationId] = [NotSettled EXCEPT !.timeout = 1]

(***************************************************************************)
(* Claims about the fallback of CircuitBreaker.execute                     *)
(***************************************************************************)

\* C26: an execute call whose operation resolves gives the operation's result
\* and never calls the fallback; a call whose operation throws, or that is
\* rejected because the breaker is OPEN or HALF_OPEN at capacity, gives the
\* fallback's result, the fallback having been called exactly once, if a
\* fallback was passed, and else rejects with the error that was caught.
C26_FallbackOrOriginalError ==
    \A i \in CallIds :
        /\ calls[i].stage # "done" => calls[i].fallbackCalls = 0
        /\ calls[i].stage = "done" =>
               IF calls[i].cause = "succeeded"
               THEN calls[i].outcome = "result" /\ calls[i].fallbackCalls = 0
               ELSE IF calls[i].fallback
               THEN calls[i].outcome = "fallback" /\ calls[i].fallbackCalls = 1
               ELSE /\ calls[i].outcome = "rejected"
                    /\ calls[i].fallbackCalls = 0
                    /\ calls[i].error =
                           CASE calls[i].cause = "open" -> "Circuit breaker is OPEN"
                             [] calls[i].cause = "capacity" ->
                                    "Circuit breaker is HALF_OPEN and at capacity"
                             [] OTHER -> "operation error"

\* C26 witness: a call with a fallback was rejected by the OPEN breaker and gave
\* the fallback's result, and a call without one was rejected at capacity
C26_Witness ==
    /\ \E i \in CallIds :
          calls[i].cause = "open" /\ calls[i].fallback /\ calls[i].outcome = "fallback"
    /\ \E i \in CallIds :
          calls[i].cause \in {"capacity", "threw"} /\ ~calls[i].fallback
              /\ calls[i].outcome = "rejected"

(***************************************************************************)
(* Claims about the ClusterManager                                         *)
(***************************************************************************)

\* C27: a peer that stopped publishing heartbeats without node_leave is
\* eventually removed, for good, from the peer table of every node that is
\* still running.
C27_DeadPeerRemoved ==
    <>[](\A r \in NodeIds, p \in NodeIds :
            (p \in crashed /\ r \notin crashed) => peers[r][p] = "absent")

(***************************************************************************)
(* Claims about the LoadBalancer                                           *)
(***************************************************************************)

\* C28: the node goes from active to inactive only in a step that brings its
\* failure count to maxFailures or above, and node_down is emitted in exactly
\* the steps in which the node goes from active to inactive.
C28_DownOncePerTransition ==
    [][ /\ (nodeActive /\ ~nodeActive') => failureCount' >= LBMaxFailures
        /\ ("node_down" \in lbEmitted') <=> (nodeActive /\ ~nodeActive') ]_vars

\* C29: the node goes from inactive to active in the step of a successful
\* health check, with its failure count reset to zero, and node_recovered, and no
\* other event, is emitted in exactly the steps in which it goes from inactive
\* to active.
C29_RecoveredOncePerTransition ==
    [][ /\ (~nodeActive /\ nodeActive') => (failureCount' = 0 /\ lbEmitted' = {"node_recovered"})
        /\ ("node_recovered" \in lbEmitted') => (~nodeActive /\ nodeActive') ]_vars

\* C30: after any sequence of generateToken, revokeToken, revokeUserTokens and
\* cleanupExpiredTokens, a token is in the token table if and only if it is in
\* the index set of its owning user, no user is mapped to an empty index set,
\* and no user holds more than maxTokensPerUser tokens.
C30_TableMatchesIndex ==
    /\ \A tk \in DOMAIN tokens :
           /\ tokens[tk].userId \in DOMAIN userTokens
           /\ tk \in userTokens[tokens[tk].userId]
    /\ \A u \in DOMAIN userTokens :
           /\ \A tk \in userTokens[u] : tk \in DOMAIN tokens /\ tokens[tk].userId = u
           /\ userTokens[u] # {}
           /\ Cardinality(userTokens[u]) <= MaxTokensPerUser

\* a call has just taken tokens out of the table while another user holds as
\* many tokens as allowed, and a call that threw at the limit was seen before
C30_Witness ==
    /\ lastOp.op \in {"cleanupExpiredTokens", "revokeUserTokens", "revokeToken"}
    /\ lastOp.removed # {}
    /\ \E u \in DOMAIN userTokens : Cardinality(userTokens[u]) = MaxTokensPerUser
    /\ \E u \in UserIds : u \notin DOMAIN userTokens

\* C31: removeClient called for an identifier that is not in the connection
\* table changes nothing: the connection table, the rate limiter's state, the
\* active-connection metric and the heartbeat monitoring stay as they were.
C31_RemoveAbsentChangesNothing ==
    [][absentRemovals' # absentRemovals =>
          UNCHANGED <<clients, rateLimiter, activeConnections, heartbeat, ticking>>]_vars

\* removeClient was called for an id that had been removed before, while another
\* connection is monitored with a pong timer armed and rate limiter state
C31_Witness ==
    /\ absentRemovals > 0
    /\ \E c \in clients : heartbeat[c].entry = "armed" /\ rateLimiter[c].present
    /\ \E c \in issued : c \notin clients
    /\ activeConnections = 1

\* C32: the connections from one IP address that validateConnection has accepted
\* and that are still open never number more than maxConnectionsPerIp.
C32_OpenWithinIpLimit ==
    \A ip \in IpAddresses : openConnections[ip] <= MaxConnectionsPerIp

\* C33: only the completion of a call that was admitted as a HALF_OPEN trial
\* releases a trial slot, and the half-open counter stays between 0 and
\* halfOpenMaxCalls: while the breaker is HALF_OPEN, a step that lowers the
\* counter is the completion of a trial.
C33_OnlyTrialsReleaseSlots ==
    [][ /\ (state = "HALF_OPEN" /\ halfOpenCalls' < halfOpenCalls) =>
               lastCall' \in {"trial_succeeded", "trial_failed"}
        /\ halfOpenCalls' \in 0..HalfOpenMaxCalls ]_vars

\* C34: at most one consumption loop is running at any time, whatever resume()
\* and pause() calls were made, a resume() issued while a paused loop is still
\* inside its polling delay included.
C34_SingleLoop == Loops <= 1

\* C35: each processing attempt of a dequeued message has at most one outcome:
\* once its processing timeout has fired and the attempt was handled as a
\* failure, the end of its listeners neither counts it as processed nor hands it
\* to the error handling again.
C35_OneOutcomePerAttempt ==
    [][\A l \in BagToSet(listening) :
          (ListenerResolves(l) \/ ListenerRejects(l)) => l.timed]_vars

\* C36: a PendingRequest created by sendRequest(connectionId, ...) is resolved or
\* rejected only by a response frame received on that same connection.
C36_SettledBySameConnection ==
    \A k \in CorrelationIds : settledBy[k] \in {"none", sentTo[k]}

\* C37: within one priority class the messages are dequeued in the order in
\* which they were enqueued, a retried message counting as enqueued, behind the
\* messages of its class already queued, when its retry calls enqueue.
C37_FifoWithinClass ==
    \A p \in PrioritySet :
        /\ Len(taken[p]) <= Len(order[p])
        /\ taken[p] = SubSeq(order[p], 1, Len(taken[p]))

\* a retried message was dequeued again after a message of its class that was
\* enqueued while it was being handled
C37_Witness ==
    \E p \in PrioritySet :
        /\ Len(taken[p]) >= 3
        /\ taken[p][1].data = taken[p][3].data
        /\ taken[p][3].attempt = 1
        /\ taken[p][2].data # taken[p][1].data

\* C38: each change of the breaker's state emits exactly one event, named after
\* the new state and carrying the old and the new state, and a step that leaves
\* the state unchanged emits no such event.
C38_OneEventPerStateChange ==
    [][ /\ state' # state =>
               emitted' = <<[name |-> toLowerCase(state'), from |-> state, to |-> state']>>
        /\ state' = state => emitted' = <<>> ]_vars

\* a call has failed while the breaker was OPEN, after the failure that opened
\* it, without an event
C38_Witness ==
    /\ state = "OPEN"
    /\ failures > FailureThreshold
    /\ emitted = <<>>
    /\ resetTimer

\* the calls of key k that returned false at the instants from..to
RECURSIVE C39_Passed(_, _, _)
C39_Passed(k, from, to) ==
    IF from > to \/ from > MaxClock THEN 0
    ELSE passed[k][from] + C39_Passed(k, from + 1, to)

\* C39: for each key, the isRateLimited calls that return false within any time
\* interval of length windowMs number at most 2 x maxRequests, and within the
\* key's fixed window at most maxRequests.
C39_BurstBounded ==
    \A k \in LimiterKeys :
        /\ \A t \in Instants : C39_Passed(k, t, t + WindowMs) <= 2 * RateLimitMaxRequests
        /\ limiter[k].present =>
               C39_Passed(k, limiter[k].windowStart, limiter[k].windowStart + WindowMs - 1)
                   <= RateLimitMaxRequests

\* a burst at a window boundary: 2 x maxRequests calls passed within windowMs,
\* and the call after them was refused
C39_Witness ==
    \E k \in LimiterKeys :
        /\ \E t \in Instants : C39_Passed(k, t, t + WindowMs) = 2 * RateLimitMaxRequests
        /\ verdicts[k] = "limited"

\* C40: after close() has been called no further connection attempt is started,
\* and at most one reconnect timer is pending at any time.
C40_NoReconnectAfterClose ==
    /\ connectsAfterClose = 0
    /\ (IF reconnectTimeout = "armed" THEN 1 ELSE 0) + strayTimers <= 1

====
